---- MODULE Spec2Model ----
(***************************************************************************)
(* Avathon toolset: the path-parameter handler (utils/path_handler.py),    *)
(* the name cleaning, the input model and the operation extractor of       *)
(* utils/spec_parser.py, the global client of client.py, and of toolset.py *)
(* the tool function built by AvathonToolset._create_tool_function, the    *)
(* loading of the operations and the discovery calls of AvathonToolset.    *)
(*                                                                         *)
(* Five specifications: PathSpec (the path handler applied to a template    *)
(* and values), Spec (one invocation of a tool function), ClientSpec       *)
(* (tasks calling the functions of the global client), RegistrySpec (a     *)
(* process that imports the toolset module and uses toolsets) and          *)
(* SchemaSpec (an input model built and given a caller's input).           *)
(*                                                                         *)
(* Strings are sequences of one-character strings, so that regular         *)
(* expression matching, str.replace and string concatenation are computed  *)
(* character by character as Python computes them.                         *)
(***************************************************************************)
EXTENDS Integers, Sequences, FiniteSets, TLC

VARIABLES
    pc,               \* position of the call being modelled
    path_template,    \* argument of the path handler call
    values,           \* argument of the path handler call (a dict)
    snake_case_keys,  \* argument of substitute_parameters
    parameters,       \* result of extract_parameters
    path,             \* path returned by substitute_parameters
    missing,          \* missing list returned by substitute_parameters
    is_valid,         \* first component of validate_path's result
    remaining,        \* second component of validate_path's result
    op,               \* the Operation the tool function was built for
    kwargs,           \* input_data.model_dump(exclude_none=True)
    api_key_set,      \* whether AVATHON_API_KEY is available to AvathonClient()
    avathon_client,   \* client.py global _avathon_client
    requests,         \* calls of client.request made by the invocation
    response,         \* the transport's answer to the pending request
    outcome,          \* how the invocation ended
    spec_file,        \* what _load_spec_file gives: the parsed document or an exception
    load_count,       \* how many times the specification has been loaded and parsed
    oas_ops,          \* _load_operations' list of extracted operations, or what ended it
    toolset,          \* the AvathonToolset constructed last
    AVATHON_EXECUTION_REGISTRY,  \* toolset.py global
    call,             \* the last call made on the toolset
    returned,         \* what that call returned
    returned_is,      \* which object the returned value is: a new one or one the toolset holds
    http,             \* state of the HTTP client of each AvathonClient made so far
    tasks             \* the tasks of the event loop that call the client functions

vars == << pc, path_template, values, snake_case_keys, parameters, path, missing,
           is_valid, remaining, op, kwargs, api_key_set, avathon_client,
           requests, response, outcome, spec_file, load_count, oas_ops, toolset,
           AVATHON_EXECUTION_REGISTRY, call, returned, returned_is, http, tasks >>

pathVars == << path_template, values, snake_case_keys, parameters, path, missing,
               is_valid, remaining >>

invokeVars == << op, kwargs, api_key_set, avathon_client, requests, response, outcome >>

registryVars == << spec_file, load_count, oas_ops, toolset, AVATHON_EXECUTION_REGISTRY,
                   call, returned, returned_is >>

clientVars == << http, tasks >>

(***************************************************************************)
(* Bounds of the model.                                                    *)
(***************************************************************************)
\* number of segments (placeholders or literals) a generated template has at most
MaxSegs == 2

(***************************************************************************)
(* Characters and strings.                                                 *)
(***************************************************************************)
Digits == {"0","1","2","3","4","5","6","7","8","9"}

\* the character class [a-zA-Z0-9_] of every pattern
NameChars ==
    {"a","b","c","d","e","f","g","h","i","j","k","l","m","n","o","p","q","r","s","t",
     "u","v","w","x","y","z"}
    \cup {"A","B","C","D","E","F","G","H","I","J","K","L","M","N","O","P","Q","R","S","T",
          "U","V","W","X","Y","Z"}
    \cup Digits \cup {"_"}

\* Python values: None, a str, an int
None == [tag |-> "none"]
StrVal(s) == [tag |-> "str", s |-> s]
IntVal(n) == [tag |-> "int", n |-> n]

DigitChar(d) == <<"0","1","2","3","4","5","6","7","8","9">>[d + 1]

RECURSIVE NatToStr(_)
NatToStr(n) == IF n < 10 THEN << DigitChar(n) >>
               ELSE NatToStr(n \div 10) \o << DigitChar(n % 10) >>

\* str(value)
Str(v) == IF v.tag = "int" THEN (IF v.n < 0 THEN <<"-">> \o NatToStr(-v.n) ELSE NatToStr(v.n))
          ELSE IF v.tag = "str" THEN v.s
          ELSE <<"N","o","n","e">>

\* dict.get(key): None when the key is absent
Get(d, key) == IF key \in DOMAIN d THEN d[key] ELSE None

\* whether p occurs in s at index i (1-based)
StartsWithAt(s, i, p) ==
    /\ i + Len(p) - 1 <= Len(s)
    /\ SubSeq(s, i, i + Len(p) - 1) = p

\* str.replace(old, new): every non-overlapping occurrence, left to right
RECURSIVE ReplaceFrom(_, _, _, _)
ReplaceFrom(s, i, old, new) ==
    IF i > Len(s) THEN <<>>
    ELSE IF StartsWithAt(s, i, old) THEN new \o ReplaceFrom(s, i + Len(old), old, new)
    ELSE << s[i] >> \o ReplaceFrom(s, i + 1, old, new)

Replace(s, old, new) == ReplaceFrom(s, 1, old, new)

(***************************************************************************)
(* utils/spec_parser.py: _clean_name                                       *)
(***************************************************************************)
\* re.match(r"^\d", s): "param_" is prefixed to a name that starts with a digit
_clean_name(s) ==
    IF Len(s) > 0 /\ s[1] \in Digits THEN <<"p","a","r","a","m","_">> \o s ELSE s

(***************************************************************************)
(* utils/path_handler.py: PathParameterHandler                             *)
(***************************************************************************)
\* Each pattern is  prefix ([a-zA-Z0-9_]+) suffix ; group 1 is the name.
PARAMETER_PATTERNS ==
    << [prefix |-> <<"{">>,      suffix |-> <<"}">>],        \* \{(name)\}
       [prefix |-> <<":">>,      suffix |-> <<>>],           \* :(name)
       [prefix |-> <<"{","{">>,  suffix |-> <<"}","}">>],    \* \{\{(name)\}\}
       [prefix |-> <<"$","{">>,  suffix |-> <<"}">>],        \* \$\{(name)\}
       [prefix |-> <<"<">>,      suffix |-> <<">">>] >>      \* <(name)>

\* length of the longest run of name characters of s that starts at index i
RECURSIVE NameRun(_, _)
NameRun(s, i) ==
    IF i <= Len(s) /\ s[i] \in NameChars THEN 1 + NameRun(s, i + 1) ELSE 0

\* length of the pattern's match that starts at index i, 0 when there is none;
\* the + is greedy and no shorter run can be followed by the suffix
MatchAt(pat, s, i) ==
    IF ~StartsWithAt(s, i, pat.prefix) THEN 0
    ELSE LET n == NameRun(s, i + Len(pat.prefix))
             e == i + Len(pat.prefix) + n
         IN IF n >= 1 /\ StartsWithAt(s, e, pat.suffix)
            THEN Len(pat.prefix) + n + Len(pat.suffix)
            ELSE 0

\* PathParameter(name = match.group(1), original_format = match.group(0),
\*               position = match.start())
PathParameter(pat, s, i, len) ==
    [name            |-> SubSeq(s, i + Len(pat.prefix), i + len - Len(pat.suffix) - 1),
     original_format |-> SubSeq(s, i, i + len - 1),
     position        |-> i - 1]

\* re.finditer(pattern, s): the non-overlapping matches, scanning left to right
RECURSIVE FindIter(_, _, _)
FindIter(pat, s, i) ==
    IF i > Len(s) THEN <<>>
    ELSE LET len == MatchAt(pat, s, i)
         IN IF len > 0
            THEN << PathParameter(pat, s, i, len) >> \o FindIter(pat, s, i + len)
            ELSE FindIter(pat, s, i + 1)

\* the inner loop of extract_parameters: a match is kept unless its start
\* position has been seen
RECURSIVE KeepUnseen(_, _, _)
KeepUnseen(matches, params, k) ==
    IF k > Len(matches) THEN params
    ELSE LET m == matches[k]
             seen_positions == { params[j].position : j \in 1..Len(params) }
         IN KeepUnseen(matches,
                       IF m.position \notin seen_positions THEN Append(params, m) ELSE params,
                       k + 1)

\* the outer loop of extract_parameters over PARAMETER_PATTERNS, in order
RECURSIVE ScanPatterns(_, _, _)
ScanPatterns(s, params, k) ==
    IF k > Len(PARAMETER_PATTERNS) THEN params
    ELSE ScanPatterns(s, KeepUnseen(FindIter(PARAMETER_PATTERNS[k], s, 1), params, 1), k + 1)

\* list.sort(key = position): a stable insertion sort
RECURSIVE InsertByPosition(_, _)
InsertByPosition(sorted, p) ==
    IF sorted = <<>> THEN << p >>
    ELSE IF sorted[Len(sorted)].position <= p.position THEN Append(sorted, p)
    ELSE Append(InsertByPosition(SubSeq(sorted, 1, Len(sorted) - 1), p), sorted[Len(sorted)])

RECURSIVE SortByPosition(_, _, _)
SortByPosition(params, sorted, k) ==
    IF k > Len(params) THEN sorted
    ELSE SortByPosition(params, InsertByPosition(sorted, params[k]), k + 1)

extract_parameters(template) ==
    SortByPosition(ScanPatterns(template, <<>>, 1), <<>>, 1)

\* the loop of substitute_parameters: st = [path, missing]
RECURSIVE SubstituteLoop(_, _, _, _, _)
SubstituteLoop(params, vals, snake, st, k) ==
    IF k > Len(params) THEN st
    ELSE LET param == params[k]
             key   == IF snake THEN _clean_name(param.name) ELSE param.name
             value == Get(vals, key)
         IN SubstituteLoop(params, vals, snake,
               IF value # None
               THEN [st EXCEPT !.path = Replace(st.path, param.original_format, Str(value))]
               ELSE [st EXCEPT !.missing = Append(st.missing, param.name)],
               k + 1)

substitute_parameters(template, vals, snake) ==
    SubstituteLoop(extract_parameters(template), vals, snake,
                   [path |-> template, missing |-> <<>>], 1)

\* every path is reported valid
validate_path_AlwaysValid(p) == [is_valid |-> TRUE, remaining |-> << >>]

validate_path(p) ==
    LET rem == extract_parameters(p)
    IN IF rem # <<>>
       THEN [is_valid |-> FALSE, remaining |-> [j \in 1..Len(rem) |-> rem[j].name]]
       ELSE [is_valid |-> TRUE, remaining |-> <<>>]

(***************************************************************************)
(* Inputs of the path handler: templates built from the five notations.    *)
(***************************************************************************)
\* parameter names of the generated templates: a name, and a name it is a prefix of
Names == { <<"i","d">>, <<"i","d","_","x">> }

\* a parameter name that starts with a digit
DigitName == <<"1","d">>

\* a placeholder for name in the k-th notation
Render(k, name) == PARAMETER_PATTERNS[k].prefix \o name \o PARAMETER_PATTERNS[k].suffix

Placeholders == { Render(k, n) : k \in 1..Len(PARAMETER_PATTERNS), n \in Names }

Literals == { <<"/">> }

Segments == Placeholders \cup Literals

RECURSIVE Concat(_)
Concat(ss) == IF ss = <<>> THEN <<>> ELSE Head(ss) \o Concat(Tail(ss))

\* the digit-named placeholder in each notation, behind a slash
DigitTemplates == { <<"/">> \o Render(k, DigitName) : k \in 1..Len(PARAMETER_PATTERNS) }

Templates ==
    { Concat(ss) : ss \in UNION { [1..k -> Segments] : k \in 0..MaxSegs } } \cup DigitTemplates

\* Scenario A of the specification
ScenarioTemplate ==
    <<"/","c","o","m","p","a","n","i","e","s","/","{","c","o","m","p","a","n","y","_","i","d","}",
      "/","p","r","o","j","e","c","t","s","/",":","p","r","o","j","e","c","t","_","i","d",
      "/","i","t","e","m","s">>

company_id == <<"c","o","m","p","a","n","y","_","i","d">>
project_id == <<"p","r","o","j","e","c","t","_","i","d">>

ScenarioValues ==
    { (company_id :> StrVal(<<"1","2","3">>)) @@ (project_id :> StrVal(<<"4","5","6">>)),
      (company_id :> StrVal(<<"1","2","3">>)) }

\* values a caller passes: a plain string, an int, a time of day
ValueChoices == { StrVal(<<"7">>), IntVal(42), StrVal(<<"1","2",":","3","0">>) }

\* the names of the placeholders of a template
NamesIn(template) ==
    LET ps == extract_parameters(template) IN { ps[j].name : j \in 1..Len(ps) }

\* dicts over the placeholder names of the template, keyed by the names or by
\* their cleaned forms
DictsFor(template) ==
    LET ns == NamesIn(template)
        keys == ns \cup { _clean_name(n) : n \in ns }
    IN UNION { [ S -> ValueChoices ] : S \in SUBSET keys }

(***************************************************************************)
(* The path handler applied to its inputs.                                 *)
(***************************************************************************)
NoInvocation ==
    /\ op = None
    /\ kwargs = << >>
    /\ api_key_set = FALSE
    /\ avathon_client = None
    /\ requests = << >>
    /\ response = None
    /\ outcome = None

\* no AvathonClient has been constructed and no task calls the client functions
NoTasks ==
    /\ http = << >>
    /\ tasks = << >>

\* no toolset module has been imported
NoRegistry ==
    /\ spec_file = None
    /\ load_count = 0
    /\ oas_ops = None
    /\ toolset = None
    /\ AVATHON_EXECUTION_REGISTRY = << >>
    /\ call = None
    /\ returned = None
    /\ returned_is = None

PathInit ==
    /\ pc = "start"
    /\ \/ /\ path_template \in Templates
          /\ snake_case_keys \in BOOLEAN
          /\ values \in DictsFor(path_template)
       \/ /\ path_template = ScenarioTemplate
          /\ snake_case_keys \in BOOLEAN
          /\ values \in ScenarioValues
    /\ parameters = << >>
    /\ path = << >>
    /\ missing = << >>
    /\ is_valid = FALSE
    /\ remaining = << >>
    /\ NoInvocation
    /\ NoRegistry
    /\ NoTasks

Extract ==
    /\ pc = "start"
    /\ parameters' = extract_parameters(path_template)
    /\ pc' = "extracted"
    /\ UNCHANGED << path_template, values, snake_case_keys, path, missing, is_valid, remaining >>
    /\ UNCHANGED invokeVars
    /\ UNCHANGED registryVars
    /\ UNCHANGED clientVars

Substitute ==
    /\ pc = "extracted"
    /\ LET r == substitute_parameters(path_template, values, snake_case_keys)
       IN /\ path' = r.path
          /\ missing' = r.missing
    /\ pc' = "substituted"
    /\ UNCHANGED << path_template, values, snake_case_keys, parameters, is_valid, remaining >>
    /\ UNCHANGED invokeVars
    /\ UNCHANGED registryVars
    /\ UNCHANGED clientVars

Validate ==
    /\ pc = "substituted"
    /\ LET r == validate_path(path)
       IN /\ is_valid' = r.is_valid
          /\ remaining' = r.remaining
    /\ pc' = "validated"
    /\ UNCHANGED << path_template, values, snake_case_keys, parameters, path, missing >>
    /\ UNCHANGED invokeVars
    /\ UNCHANGED registryVars
    /\ UNCHANGED clientVars

PathNext == Extract \/ Substitute \/ Validate

PathSpec == PathInit /\ [][PathNext]_vars

(***************************************************************************)
(* utils/spec_parser.py: Operation and the input model built for it.       *)
(***************************************************************************)
\* bounds of the operations the tool function is built for
MaxParams == 1

body_key == <<"b","o","d","y">>
extra_headers_key == <<"e","x","t","r","a","_","h","e","a","d","e","r","s">>
include_all_key == <<"i","n","c","l","u","d","e","_","a","l","l">>

DictVal(d) == [tag |-> "dict", d |-> d]
BoolVal(b) == [tag |-> "bool", b |-> b]

\* p.get("schema") or {}
GetSchema(p) == IF "schema" \in DOMAIN p THEN p.schema ELSE << >>

\* lines 144-155: the Python type for the schema's type, str when the schema
\* has none or another one
PyType(schema) ==
    IF "type" \notin DOMAIN schema THEN "str"
    ELSE IF schema.type = "integer" THEN "int"
    ELSE IF schema.type = "number" THEN "float"
    ELSE IF schema.type = "boolean" THEN "bool"
    ELSE IF schema.type = "array" THEN "List[Any]"
    ELSE IF schema.type = "object" THEN "Dict[str, Any]"
    ELSE "str"

\* _build_input_model_from_operation: the fields of the model, later entries of
\* the dict replacing earlier ones of the same name; the type of a field that
\* is not required is Optional[type]
RECURSIVE ParameterFields(_, _, _)
ParameterFields(params, fields, k) ==
    IF k > Len(params) THEN fields
    ELSE LET p    == params[k]
             name == _clean_name(p.name)
             f    == [type |-> PyType(GetSchema(p)), required |-> p.required,
                      default |-> None]
         IN ParameterFields(params,
                [ x \in (DOMAIN fields) \cup {name} |-> IF x = name THEN f ELSE fields[x] ],
                k + 1)

Put(d, key, v) == [ x \in (DOMAIN d) \cup {key} |-> IF x = key THEN v ELSE d[x] ]

\* the body field is added whether or not the operation has a request body
_build_input_model_from_operation_AlwaysBody(o) ==
    LET f1 == ParameterFields(o.parameters, << >>, 1)
        f2 == Put(f1, body_key, [type |-> "Dict[str, Any]", required |-> FALSE,
                                 default |-> None])
        f3 == Put(f2, extra_headers_key, [type |-> "Dict[str, str]", required |-> FALSE,
                                           default |-> None])
        param_names == { o.parameters[j].name : j \in 1..Len(o.parameters) }
    IN IF \/ {<<"p","a","g","e">>, <<"p","e","r","_","p","a","g","e">>} \cap param_names # {}
          \/ <<"c","u","r","s","o","r">> \in param_names
       THEN Put(f3, include_all_key, [type |-> "bool", required |-> FALSE,
                                      default |-> BoolVal(FALSE)])
       ELSE f3

_build_input_model_from_operation(o) ==
    LET f1 == ParameterFields(o.parameters, << >>, 1)
        f2 == IF o.request_body_schema # None
              THEN Put(f1, body_key, [type |-> "Dict[str, Any]", required |-> FALSE,
                                      default |-> None])
              ELSE f1
        f3 == Put(f2, extra_headers_key, [type |-> "Dict[str, str]", required |-> FALSE,
                                           default |-> None])
        param_names == { o.parameters[j].name : j \in 1..Len(o.parameters) }
    IN IF \/ {<<"p","a","g","e">>, <<"p","e","r","_","p","a","g","e">>} \cap param_names # {}
          \/ <<"c","u","r","s","o","r">> \in param_names
       THEN Put(f3, include_all_key, [type |-> "bool", required |-> FALSE,
                                      default |-> BoolVal(FALSE)])
       ELSE f3

(***************************************************************************)
(* Operations and validated inputs of the modelled invocations.            *)
(***************************************************************************)
IdName == <<"i","d">>
HeaderName == <<"X">>

\* parameter descriptors an operation may declare: name, in, required
Descriptors ==
    { [name |-> IdName,     in |-> "path",   required |-> TRUE],
      [name |-> IdName,     in |-> "path",   required |-> FALSE],
      [name |-> IdName,     in |-> "query",  required |-> FALSE],
      [name |-> IdName,     in |-> "cookie", required |-> FALSE],
      [name |-> HeaderName, in |-> "header", required |-> FALSE],
      [name |-> body_key,   in |-> "query",  required |-> FALSE],
      [name |-> DigitName,  in |-> "path",   required |-> TRUE] }

ParamLists == UNION { [1..k -> Descriptors] : k \in 0..MaxParams }

OpTemplates ==
    { <<"/","p">> }
    \cup { <<"/","p","/">> \o Render(k, IdName) : k \in 1..Len(PARAMETER_PATTERNS) }
    \cup { <<"/","p","/">> \o Render(1, DigitName),
           <<"/","p","/">> \o Render(1, IdName) \o <<"/">> \o Render(2, <<"i","d","_","x">>) }

JsonSchema == [tag |-> "schema"]

Operations ==
    { [name |-> <<"g","e","t","P">>, method |-> <<"G","E","T">>, path_template |-> t,
       tag_path |-> << >>, description |-> << >>,
       parameters |-> ps, request_body_schema |-> None] :
          t \in OpTemplates, ps \in ParamLists }
    \cup
    { [name |-> <<"p","u","t","P">>, method |-> <<"P","U","T">>, path_template |-> t,
       tag_path |-> << >>, description |-> << >>,
       parameters |-> ps, request_body_schema |-> JsonSchema] :
          t \in OpTemplates, ps \in ParamLists }

\* values of the parameter fields, of the body and of the extra headers
InvokeValues == { StrVal(<<"7">>), StrVal(<<"1","2",":","3","0">>) }
BodyValues == { DictVal(<<"k">> :> StrVal(<<"v">>)) }
ExtraHeaderValues == { DictVal(HeaderName :> StrVal(<<"e">>)) }

\* the values a field of the input model accepts, by its type
FieldValues(field) ==
    IF field.type = "Dict[str, Any]" THEN BodyValues
    ELSE IF field.type = "Dict[str, str]" THEN ExtraHeaderValues
    ELSE IF field.type = "bool" THEN { BoolVal(TRUE), BoolVal(FALSE) }
    ELSE IF field.type = "int" THEN { IntVal(42) }
    ELSE InvokeValues

\* input_data.model_dump(exclude_none=True) for the validated inputs of the
\* model: a required field has a value, a field left out takes its default, and
\* a None is dropped
ModelDumps(fields) ==
    LET required == { k \in DOMAIN fields : fields[k].required }
        defaulted == { k \in DOMAIN fields : ~fields[k].required /\ fields[k].default # None }
    IN UNION { { [ k \in S \cup defaulted |->
                     IF k \in S THEN g[k] ELSE fields[k].default ] :
                 g \in { h \in [S -> UNION { FieldValues(fields[k]) : k \in S }] :
                             \A k \in S : h[k] \in FieldValues(fields[k]) } } :
               S \in { T \in SUBSET (DOMAIN fields) : required \subseteq T } }

(***************************************************************************)
(* client.py: the global client.                                           *)
(***************************************************************************)
\* what a call or a step of a call ends with
Return(v) == [kind |-> "return", value |-> v]
Raise(type, args) == [kind |-> "raise", type |-> type, args |-> args]
ModelRetry(text, args) == [kind |-> "raise", type |-> "ModelRetry", text |-> text, args |-> args]

IsModelRetry(o) == o.kind = "raise" /\ o.type = "ModelRetry"

\* an AvathonClient object: the n-th one constructed; its HTTP client is made[n]
Client(n) == [tag |-> "client", id |-> n]

\* AvathonClient(): the constructor raises ValueError without an API key and
\* otherwise creates the object with an open HTTP client of its own;
\* made is the state of the HTTP clients created so far
AvathonClient(key_set, made) ==
    IF key_set
    THEN [result |-> Return(Client(Len(made) + 1)), http |-> Append(made, "open")]
    ELSE [result |-> Raise("ValueError", [text |-> "AVATHON_API_KEY environment variable or api_key parameter required"]),
          http   |-> made]

\* get_avathon_client: [result, global, http], creating the client when there is none
get_avathon_client(global, key_set, made) ==
    IF global = None
    THEN LET new == AvathonClient(key_set, made)
         IN IF new.result.kind = "raise"
            THEN [result |-> new.result, global |-> global, http |-> new.http]
            ELSE [result |-> new.result, global |-> new.result.value, http |-> new.http]
    ELSE [result |-> Return(global), global |-> global, http |-> made]

\* set_avathon_client: the new value of the global
set_avathon_client(global, client) == client

\* AvathonClient.close up to the suspension inside self.http.aclose(): the
\* HTTP client has begun to close
close_until_suspended(self, made) ==
    [made EXCEPT ![self.id] = IF @ = "open" THEN "closing" ELSE @]

\* AvathonClient.close resumed: the HTTP client is closed
close_resumed(self, made) == [made EXCEPT ![self.id] = "closed"]

\* close_avathon_client up to its await: [suspended, self, http]; without a
\* current client it returns at once
close_avathon_client_until_await(global, made) ==
    IF global # None
    THEN [suspended |-> TRUE, self |-> global, http |-> close_until_suspended(global, made)]
    ELSE [suspended |-> FALSE, self |-> None, http |-> made]

\* close_avathon_client resumed after the await on self: [global, http]
close_avathon_client_after_await(self, global, made) ==
    [global |-> None, http |-> close_resumed(self, made)]

(***************************************************************************)
(* toolset.py: the tool function built by _create_tool_function.           *)
(***************************************************************************)
\* the missing list is never looked at
HasMissing_Never(m) == FALSE

\* line 263: if missing
HasMissing(m) == m # << >>

\* kwargs.pop(key, None)
Without(d, keys) == [ x \in (DOMAIN d) \ keys |-> d[x] ]

\* the loop over op.parameters that fills query_params and request_headers
RECURSIVE Partition(_, _, _, _)
Partition(params, kw, acc, k) ==
    IF k > Len(params) THEN acc
    ELSE LET param_name == params[k].name
             clean_name == _clean_name(param_name)
             param_in   == params[k].in
             value      == Get(kw, clean_name)
         IN Partition(params, kw,
               IF clean_name \in DOMAIN kw /\ value # None
               THEN IF param_in = "query"
                    THEN [acc EXCEPT !.query_params = Put(@, param_name, value)]
                    ELSE IF param_in = "header"
                    THEN [acc EXCEPT !.request_headers = Put(@, param_name, StrVal(Str(value)))]
                    ELSE acc
               ELSE acc,
               k + 1)

\* dict.update(other)
Update(d, other) == [ x \in (DOMAIN d) \cup (DOMAIN other) |->
                        IF x \in DOMAIN other THEN other[x] ELSE d[x] ]

\* d if d else None
OrNone(d) == IF DOMAIN d = {} THEN None ELSE DictVal(d)

\* the arguments of client.request
BuildRequest(o, kw, p) ==
    LET request_body  == Get(kw, body_key)
        extra_headers == Get(kw, extra_headers_key)
        rest          == Without(kw, {body_key, extra_headers_key})
        parts         == Partition(o.parameters, rest,
                                   [query_params |-> << >>, request_headers |-> << >>], 1)
        headers       == IF extra_headers # None /\ DOMAIN extra_headers.d # {}
                         THEN Update(parts.request_headers, extra_headers.d)
                         ELSE parts.request_headers
    IN [method    |-> o.method,
        path      |-> p,
        params    |-> OrNone(parts.query_params),
        json_body |-> request_body,
        headers   |-> OrNone(headers)]

\* the body of the try block up to the await of client.request: the locals it
\* leaves and either what it raised or the request it awaits
tool_func_until_request(o, kw, client) ==
    LET nothing == [result |-> client, path |-> << >>, missing |-> << >>,
                    is_valid |-> FALSE, remaining |-> << >>, request |-> None]
    IN IF client.kind = "raise" THEN nothing
       ELSE LET sub == substitute_parameters(o.path_template, kw, FALSE)
                found == [nothing EXCEPT !.path = sub.path, !.missing = sub.missing]
            IN IF HasMissing(sub.missing)
               THEN [found EXCEPT !.result =
                        ModelRetry("Missing required path parameters: {', '.join(missing)}. Please provide values for: {missing}",
                                   [missing |-> sub.missing])]
               ELSE LET v == validate_path(sub.path)
                        checked == [found EXCEPT !.is_valid = v.is_valid,
                                                 !.remaining = v.remaining]
                    IN IF ~v.is_valid
                       THEN [checked EXCEPT !.result =
                                ModelRetry("Failed to substitute all parameters in {op.name}. Unresolved: {', '.join(remaining)}",
                                           [op_name |-> o.name, remaining |-> v.remaining])]
                       ELSE [checked EXCEPT !.result = None,
                                            !.request = BuildRequest(o, kw, sub.path)]

\* httpx: response.raise_for_status() raises HTTPStatusError unless 2xx
raise_for_status(r) ==
    IF r.status_code >= 200 /\ r.status_code <= 299 THEN None
    ELSE Raise("HTTPStatusError", [response |-> r])

message_key == <<"m","e","s","s","a","g","e">>
data_key == <<"d","a","t","a">>
status_code_key == <<"s","t","a","t","u","s","_","c","o","d","e">>

\* lines 328-332: the message of a 400 response, "Bad request" when the body
\* is not JSON, is no object or has no message
BadRequestMessage(r) ==
    IF r.is_json /\ r.json.tag = "dict"
    THEN Get(r.json.d, message_key)
    ELSE None

\* lines 323-337: the failure raised for a status other than 401
OtherStatusFailure(o, r) ==
    LET status == r.status_code
    IN IF status = 403
       THEN ModelRetry("Access denied (403). You may not have permission for this resource in {op.name}.",
                       [status |-> status, op_name |-> o.name])
       ELSE IF status = 404
       THEN ModelRetry("Resource not found (404). Please verify the parameters are correct for {op.name}.",
                       [status |-> status, op_name |-> o.name])
       ELSE IF status = 400
       THEN ModelRetry("Invalid request (400): {error_msg}. Please check your parameters for {op.name}.",
                       [status |-> status, op_name |-> o.name,
                        error_msg |-> LET m == BadRequestMessage(r)
                                      IN IF m = None THEN StrVal(<<"B","a","d"," ","r","e","q","u","e","s","t">>)
                                         ELSE m])
       ELSE IF status >= 500
       THEN ModelRetry("Avathon server error ({status}). The service may be temporarily unavailable.",
                       [status |-> status])
       ELSE ModelRetry("API error ({status}) for {op.name}. Please check your request.",
                       [status |-> status, op_name |-> o.name])

\* the 401 branch is absent
StatusFailure_No401Branch(o, r) == OtherStatusFailure(o, r)

\* lines 319-337: the failure raised for an HTTPStatusError
StatusFailure(o, r) ==
    IF r.status_code = 401
    THEN ModelRetry("Authentication failed (401). Please check your AVATHON_API_KEY.",
                    [status |-> r.status_code])
    ELSE OtherStatusFailure(o, r)

\* lines 306-340: what the tool function does with the response it awaited
HandleResponse(o, r) ==
    LET http_error == raise_for_status(r)
    IN IF http_error = None
       THEN IF r.is_json
            THEN Return(r.json)
            ELSE Return(DictVal((data_key :> StrVal(r.text))
                                @@ (status_code_key :> IntVal(r.status_code))))
       ELSE IF http_error.type = "HTTPStatusError"
            THEN StatusFailure(o, http_error.args.response)
            ELSE ModelRetry("HTTP error for {op.name}: {str(http_error)}",
                            [op_name |-> o.name, http_error |-> http_error.type])

\* every exception is re-raised as it is
OuterExcept_Reraise(o, result) == result

\* lines 342-347: ModelRetry is re-raised, any other Exception becomes one
OuterExcept(o, result) ==
    IF result.kind = "raise" /\ result.type # "ModelRetry"
    THEN ModelRetry("Tool execution failed for {op.name}: {str(e)}. Please check your parameters and try again.",
                    [op_name |-> o.name, e |-> result.type])
    ELSE result

\* a server error starts the call again
AfterResponse_RetryOnServerError(o, r) ==
    IF r.status_code >= 500
    THEN [pc |-> "ready", outcome |-> None]
    ELSE [pc |-> "done", outcome |-> OuterExcept(o, HandleResponse(o, r))]

\* where the tool function is after the response: it has ended
AfterResponse(o, r) == [pc |-> "done", outcome |-> OuterExcept(o, HandleResponse(o, r))]

(***************************************************************************)
(* The transport's answers.                                                *)
(***************************************************************************)
Statuses == { 100, 200, 301, 400, 401, 403, 404, 429, 500, 503 }

Bodies ==
    { [is_json |-> TRUE,  json |-> DictVal(message_key :> StrVal(<<"q">>)), text |-> <<"j","1">>],
      [is_json |-> TRUE,  json |-> DictVal(<< >>),                           text |-> <<"j","2">>],
      [is_json |-> TRUE,  json |-> [tag |-> "list", l |-> << >>],            text |-> <<"j","3">>],
      [is_json |-> FALSE, json |-> None,                                     text |-> <<"t">>] }

Responses ==
    { [status_code |-> n, is_json |-> b.is_json, json |-> b.json, text |-> b.text] :
          n \in Statuses, b \in Bodies }

(***************************************************************************)
(* One invocation of a tool function.                                      *)
(***************************************************************************)
NoPathCall ==
    /\ path_template = << >>
    /\ values = << >>
    /\ snake_case_keys = FALSE
    /\ parameters = << >>

Init ==
    /\ pc = "ready"
    /\ op \in Operations
    /\ kwargs \in ModelDumps(_build_input_model_from_operation(op))
    /\ api_key_set \in BOOLEAN
    /\ avathon_client = None
    /\ requests = << >>
    /\ response = None
    /\ outcome = None
    /\ NoPathCall
    /\ path = << >>
    /\ missing = << >>
    /\ is_valid = FALSE
    /\ remaining = << >>
    /\ NoRegistry
    /\ NoTasks

\* the call of the tool function, up to its first suspension or its end
Invoke ==
    /\ pc = "ready"
    /\ LET got == get_avathon_client(avathon_client, api_key_set, http)
           run == tool_func_until_request(op, kwargs, got.result)
       IN /\ avathon_client' = got.global
          /\ http' = got.http
          /\ path' = run.path
          /\ missing' = run.missing
          /\ is_valid' = run.is_valid
          /\ remaining' = run.remaining
          /\ IF run.result = None
             THEN /\ requests' = Append(requests, run.request)
                  /\ pc' = "awaiting"
                  /\ outcome' = outcome
             ELSE /\ requests' = requests
                  /\ pc' = "done"
                  /\ outcome' = OuterExcept(op, run.result)
    /\ UNCHANGED << path_template, values, snake_case_keys, parameters,
                    op, kwargs, api_key_set, response >>
    /\ UNCHANGED registryVars
    /\ UNCHANGED tasks

\* the transport answers the pending request and the tool function resumes
Respond(r) ==
    /\ pc = "awaiting"
    /\ response' = r
    /\ LET next == AfterResponse(op, r)
       IN /\ pc' = next.pc
          /\ outcome' = next.outcome
    /\ UNCHANGED << pathVars, op, kwargs, api_key_set, avathon_client, requests >>
    /\ UNCHANGED registryVars
    /\ UNCHANGED clientVars

\* the transport raises instead of answering (a connection error, a timeout)
TransportRaises ==
    /\ pc = "awaiting"
    /\ pc' = "done"
    /\ outcome' = OuterExcept(op, Raise("ConnectError", [text |-> "connection failed"]))
    /\ UNCHANGED << pathVars, op, kwargs, api_key_set, avathon_client, requests, response >>
    /\ UNCHANGED registryVars
    /\ UNCHANGED clientVars

Next == Invoke \/ (\E r \in Responses : Respond(r)) \/ TransportRaises

Spec == Init /\ [][Next]_vars

(***************************************************************************)
(* client.py: tasks of one event loop that call get_avathon_client,        *)
(* set_avathon_client and close_avathon_client. A task runs without        *)
(* interruption up to an await that suspends it; the only such await is    *)
(* the one of close_avathon_client.                                        *)
(***************************************************************************)
\* number of tasks
MaxTasks == 3

Tasks == 1..MaxTasks

\* a task that has not called anything yet
Ready == [pc |-> "ready", call |-> "", self |-> None, result |-> None]

\* a task whose call has ended with the outcome r
Ended(name, r) == [pc |-> "done", call |-> name, self |-> None, result |-> r]

\* a task suspended in close_avathon_client, awaiting self.close()
Closing(self) == [pc |-> "closing", call |-> "close_avathon_client", self |-> self, result |-> None]

ClientInit ==
    /\ pc = "tasks"
    /\ api_key_set \in BOOLEAN
    /\ avathon_client = None
    /\ http = << >>
    /\ tasks = [ t \in Tasks |-> Ready ]
    /\ op = None
    /\ kwargs = << >>
    /\ requests = << >>
    /\ response = None
    /\ outcome = None
    /\ NoPathCall
    /\ path = << >>
    /\ missing = << >>
    /\ is_valid = FALSE
    /\ remaining = << >>
    /\ NoRegistry

\* task t calls get_avathon_client()
GetClient(t) ==
    /\ tasks[t].pc = "ready"
    /\ LET got == get_avathon_client(avathon_client, api_key_set, http)
       IN /\ avathon_client' = got.global
          /\ http' = got.http
          /\ tasks' = [tasks EXCEPT ![t] = Ended("get_avathon_client", got.result)]
    /\ UNCHANGED << pc, pathVars, op, kwargs, api_key_set, requests, response, outcome >>
    /\ UNCHANGED registryVars

\* task t calls set_avathon_client(AvathonClient())
SetClient(t) ==
    /\ tasks[t].pc = "ready"
    /\ LET new == AvathonClient(api_key_set, http)
       IN /\ http' = new.http
          /\ IF new.result.kind = "raise"
             THEN /\ avathon_client' = avathon_client
                  /\ tasks' = [tasks EXCEPT ![t] = Ended("AvathonClient", new.result)]
             ELSE /\ avathon_client' = set_avathon_client(avathon_client, new.result.value)
                  /\ tasks' = [tasks EXCEPT ![t] = Ended("set_avathon_client", Return(None))]
    /\ UNCHANGED << pc, pathVars, op, kwargs, api_key_set, requests, response, outcome >>
    /\ UNCHANGED registryVars

\* task t calls close_avathon_client(), which runs up to its await
CloseClient(t) ==
    /\ tasks[t].pc = "ready"
    /\ LET run == close_avathon_client_until_await(avathon_client, http)
       IN /\ http' = run.http
          /\ tasks' = [tasks EXCEPT ![t] = IF run.suspended
                                            THEN Closing(run.self)
                                            ELSE Ended("close_avathon_client", Return(None))]
    /\ UNCHANGED << pc, pathVars, invokeVars >>
    /\ UNCHANGED registryVars

\* the HTTP client has closed: close_avathon_client of task t resumes and ends
ClientClosed(t) ==
    /\ tasks[t].pc = "closing"
    /\ LET run == close_avathon_client_after_await(tasks[t].self, avathon_client, http)
       IN /\ avathon_client' = run.global
          /\ http' = run.http
    /\ tasks' = [tasks EXCEPT ![t] = Ended("close_avathon_client", Return(None))]
    /\ UNCHANGED << pc, pathVars, op, kwargs, api_key_set, requests, response, outcome >>
    /\ UNCHANGED registryVars

ClientNext ==
    \/ \E t \in Tasks : GetClient(t)
    \/ \E t \in Tasks : SetClient(t)
    \/ \E t \in Tasks : CloseClient(t)
    \/ \E t \in Tasks : ClientClosed(t)

ClientSpec == ClientInit /\ [][ClientNext]_vars

(***************************************************************************)
(* Python strings and dicts used by the extractor and the registry.        *)
(***************************************************************************)
LowerLetters == <<"a","b","c","d","e","f","g","h","i","j","k","l","m","n","o","p","q","r","s","t",
                  "u","v","w","x","y","z">>
UpperLetters == <<"A","B","C","D","E","F","G","H","I","J","K","L","M","N","O","P","Q","R","S","T",
                  "U","V","W","X","Y","Z">>

\* the character of `to` at the place c has in `from`, c itself when it has none
MapChar(c, from, to) ==
    IF \E i \in 1..Len(from) : from[i] = c
    THEN to[CHOOSE i \in 1..Len(from) : from[i] = c]
    ELSE c

\* str.upper() and str.lower()
upper(s) == [ i \in 1..Len(s) |-> MapChar(s[i], LowerLetters, UpperLetters) ]
lower(s) == [ i \in 1..Len(s) |-> MapChar(s[i], UpperLetters, LowerLetters) ]

\* term in text
Contains(text, term) == \E i \in 1..(Len(text) + 1) : StartsWithAt(text, i, term)

Whitespace == { " ", "\t", "\n" }

\* str.strip()
RECURSIVE LStrip(_)
LStrip(s) == IF s # << >> /\ Head(s) \in Whitespace THEN LStrip(Tail(s)) ELSE s

RECURSIVE RStrip(_)
RStrip(s) == IF s # << >> /\ s[Len(s)] \in Whitespace
             THEN RStrip(SubSeq(s, 1, Len(s) - 1)) ELSE s

strip(s) == RStrip(LStrip(s))

\* s.split("/")[-1]: what follows the last slash, s itself when it has none
RECURSIVE LastSegment(_)
LastSegment(s) ==
    IF \E i \in 1..Len(s) : s[i] = "/" THEN LastSegment(Tail(s)) ELSE s

\* d.get(key, default) for a JSON object, a function from its keys
GetOr(d, key, default) == IF key \in DOMAIN d THEN d[key] ELSE default

\* a dict whose order of insertion matters is the sequence of its items
Item(k, v) == [key |-> k, value |-> v]
Keys(d) == { d[i].key : i \in 1..Len(d) }
Lookup(d, k) == d[CHOOSE i \in 1..Len(d) : d[i].key = k].value

\* d[k] = v: a new key goes last, a key of the dict keeps its place
SetItem(d, k, v) ==
    IF k \in Keys(d)
    THEN [ i \in 1..Len(d) |-> IF d[i].key = k THEN Item(k, v) ELSE d[i] ]
    ELSE Append(d, Item(k, v))

(***************************************************************************)
(* utils/spec_parser.py: OpenAPIExtractor.iter_operations                  *)
(***************************************************************************)
HTTP_METHODS == { <<"G","E","T">>, <<"P","O","S","T">>, <<"P","U","T">>,
                  <<"P","A","T","C","H">>, <<"D","E","L","E","T","E">> }

\* the empty JSON object
EmptyObject == << >>

\* a dict of which the keys in `keys` hold p.get(key): a key whose value is
\* None is left out, and a reader's d.get(key) is GetOr(d, key, None)
DropNull(d, p, keys) == [ key \in (DOMAIN d) \ { k \in keys : k \notin DOMAIN p } |-> d[key] ]

\* lines 86-96: the descriptor of one entry of the operation's parameter list,
\* a reference being looked up under its last segment in the shared table and
\* taken as {} when the table has no such entry
ExtractParameter(entry, global_params) ==
    LET p == IF "$ref" \in DOMAIN entry
             THEN GetOr(global_params, LastSegment(entry["$ref"]), EmptyObject)
             ELSE entry
    IN DropNull([name        |-> GetOr(p, "name", None),
                 in          |-> GetOr(p, "in", None),
                 required    |-> GetOr(p, "required", FALSE),
                 schema      |-> GetOr(p, "schema", EmptyObject),
                 description |-> GetOr(p, "description", << >>)],
                p, {"name", "in"})

\* the schema is taken from whichever content type the request body has
ExtractBodySchema_AnyContent(o) ==
    LET rb == GetOr(o, "requestBody", EmptyObject)
    IN IF rb = EmptyObject THEN None
       ELSE LET content == GetOr(rb, "content", EmptyObject)
            IN IF DOMAIN content # {}
               THEN GetOr(content[CHOOSE type \in DOMAIN content : TRUE], "schema", None)
               ELSE None

\* lines 99-107: the schema of the application/json content of the request body
ExtractBodySchema(o) ==
    LET rb == GetOr(o, "requestBody", EmptyObject)
    IN IF rb = EmptyObject THEN None
       ELSE LET content == GetOr(rb, "content", EmptyObject)
            IN IF "application/json" \in DOMAIN content
               THEN GetOr(content["application/json"], "schema", None)
               ELSE None

\* x or y for two strings
Or(x, y) == IF x # << >> THEN x ELSE y

\* lines 80-117: the Operation built for a method key and its operation object
ExtractOperation(path_key, method, o, global_params) ==
    LET entries == GetOr(o, "parameters", << >>)
    IN [name          |-> Or(GetOr(o, "operationId", << >>), method \o <<"_">> \o path_key),
        method        |-> upper(method),
        path_template |-> path_key,
        tag_path      |-> GetOr(o, "tags", << >>),
        description   |-> strip(Or(GetOr(o, "description", << >>),
                                   Or(GetOr(o, "summary", << >>), << >>))),
        parameters    |-> [ j \in 1..Len(entries) |->
                              ExtractParameter(entries[j], global_params) ],
        request_body_schema |-> ExtractBodySchema(o)]

\* the generator's state: the operations yielded so far and the exception that
\* ended it, if any
Yielded(ops) == [ops |-> ops, raised |-> None]

\* the method key is compared as it is written
RECURSIVE IterMethods_CaseSensitive(_, _, _, _, _)
IterMethods_CaseSensitive(path_key, items, global_params, acc, k) ==
    IF acc.raised # None \/ k > Len(items) THEN acc
    ELSE LET method == items[k].key
             o      == items[k].value
         IN IterMethods_CaseSensitive(path_key, items, global_params,
               IF method \notin HTTP_METHODS THEN acc
               ELSE IF o = None
               THEN [acc EXCEPT !.raised =
                        Raise("AttributeError", [text |-> "'NoneType' object has no attribute 'get'"])]
               ELSE [acc EXCEPT !.ops =
                        Append(@, ExtractOperation(path_key, method, o, global_params))],
               k + 1)

\* the value of a key is looked at before the key is tested
RECURSIVE IterMethods_LooksBeforeFilter(_, _, _, _, _)
IterMethods_LooksBeforeFilter(path_key, items, global_params, acc, k) ==
    IF acc.raised # None \/ k > Len(items) THEN acc
    ELSE LET method == items[k].key
             o      == items[k].value
         IN IterMethods_LooksBeforeFilter(path_key, items, global_params,
               IF o = None
               THEN [acc EXCEPT !.raised =
                        Raise("AttributeError", [text |-> "'NoneType' object has no attribute 'get'"])]
               ELSE IF upper(method) \notin HTTP_METHODS THEN acc
               ELSE [acc EXCEPT !.ops =
                        Append(@, ExtractOperation(path_key, method, o, global_params))],
               k + 1)

\* lines 76-117: the loop over the items of one path's object; a key that is no
\* HTTP method is passed over before its value is looked at
RECURSIVE IterMethods(_, _, _, _, _)
IterMethods(path_key, items, global_params, acc, k) ==
    IF acc.raised # None \/ k > Len(items) THEN acc
    ELSE LET method == items[k].key
             o      == items[k].value
         IN IterMethods(path_key, items, global_params,
               IF upper(method) \notin HTTP_METHODS THEN acc
               ELSE IF o = None
               THEN [acc EXCEPT !.raised =
                        Raise("AttributeError", [text |-> "'NoneType' object has no attribute 'get'"])]
               ELSE [acc EXCEPT !.ops =
                        Append(@, ExtractOperation(path_key, method, o, global_params))],
               k + 1)

\* lines 75-76: the loop over the items of paths
RECURSIVE IterPaths(_, _, _, _)
IterPaths(paths, global_params, acc, k) ==
    IF acc.raised # None \/ k > Len(paths) THEN acc
    ELSE LET methods == paths[k].value
         IN IterPaths(paths, global_params,
               IF methods = None
               THEN [acc EXCEPT !.raised =
                        Raise("AttributeError", [text |-> "'NoneType' object has no attribute 'items'"])]
               ELSE IterMethods(paths[k].key, methods.items, global_params, acc, 1),
               k + 1)

\* list(OpenAPIExtractor(oas).iter_operations())
iter_operations(oas) ==
    LET paths         == GetOr(oas, "paths", << >>)
        global_params == GetOr(GetOr(oas, "components", EmptyObject), "parameters", EmptyObject)
    IN IterPaths(paths, global_params, Yielded(<< >>), 1)

(***************************************************************************)
(* toolset.py: AvathonToolset                                              *)
(***************************************************************************)
\* lines 51-54: the loop that registers the extracted operations
RECURSIVE Register(_, _, _)
Register(ops, ts, k) ==
    IF k > Len(ops) THEN ts
    ELSE LET o         == ops[k]
             tool_name == _clean_name(o.name)
         IN Register(ops,
               [ts EXCEPT
                  !._operations_by_name = SetItem(@, tool_name, o),
                  !._registry = SetItem(@, tool_name,
                                        Or(o.description, o.method \o <<" ">> \o o.path_template))],
               k + 1)

\* the two dicts as __init__ and the except branch set them
EmptyToolset == [_operations_by_name |-> << >>, _registry |-> << >>]

\* the operations yielded before the failure are registered and stay
_load_operations_KeepPartial(file) ==
    IF file.kind = "raise" THEN [self |-> EmptyToolset, oas_ops |-> file]
    ELSE LET it == iter_operations(file.value)
         IN [self    |-> Register(it.ops, EmptyToolset, 1),
             oas_ops |-> IF it.raised # None THEN it.raised ELSE Return(it.ops)]

\* lines 41-61: __init__ and _load_operations, given what _load_spec_file does;
\* the list of operations is complete before the first one is registered
_load_operations(file) ==
    IF file.kind = "raise" THEN [self |-> EmptyToolset, oas_ops |-> file]
    ELSE LET it == iter_operations(file.value)
         IN IF it.raised # None
            THEN [self |-> EmptyToolset, oas_ops |-> it.raised]
            ELSE [self |-> Register(it.ops, EmptyToolset, 1), oas_ops |-> Return(it.ops)]

\* a dict a call returns: its items, and which object it is
NewDict(items) == [items |-> items, is |-> "new"]
SameDict(attribute, items) == [items |-> items, is |-> attribute]

\* dict.copy(): a new dict with the same items
copy(d) == NewDict(d)

\* the registry dict itself is handed out
get_available_tools_NoCopy(self) == SameDict("_registry", self._registry)

\* lines 109-111: a copy of the registry
get_available_tools(self) == copy(self._registry)

\* lines 113-115: a copy of the registry
get_registry(self) == copy(self._registry)

\* an optional list argument: None, or a list
ListVal(l) == [tag |-> "list", l |-> l]

\* `if xs:` for an optional list
Given(xs) == xs # None /\ xs.l # << >>

\* dict.get(k) on an ordered dict
GetItem(d, k) == IF k \in Keys(d) THEN Lookup(d, k) ELSE None

\* lines 144-162: whether the filters let the registry entry through
PassesFilters(self, tool_name, description, search_terms, categories, methods) ==
    LET text == lower(tool_name \o <<" ">> \o description)
        o    == GetItem(self._operations_by_name, tool_name)
    IN /\ Given(search_terms) =>
              \E i \in 1..Len(search_terms.l) : Contains(text, lower(search_terms.l[i]))
       /\ Given(methods) =>
              ~(o # None /\ o.method \notin { upper(methods.l[i]) : i \in 1..Len(methods.l) })
       /\ Given(categories) =>
              ~(o # None /\ LET op_tags == { lower(o.tag_path[i]) : i \in 1..Len(o.tag_path) }
                            IN ~\E i \in 1..Len(categories.l) : lower(categories.l[i]) \in op_tags)

\* the loop stops at the first entry once the limit is reached
RECURSIVE GetToolsLoop(_, _, _, _, _, _, _)
GetToolsLoop(self, search_terms, categories, methods, limit, results, k) ==
    IF k > Len(self._registry) \/ Len(results) >= limit THEN results
    ELSE LET tool_name   == self._registry[k].key
             description == self._registry[k].value
         IN GetToolsLoop(self, search_terms, categories, methods, limit,
               IF PassesFilters(self, tool_name, description, search_terms, categories, methods)
               THEN SetItem(results, tool_name, description)
               ELSE results,
               k + 1)

\* lines 117-166
get_tools(self, search_terms, categories, methods, limit) ==
    GetToolsLoop(self, search_terms, categories, methods, limit, << >>, 1)

\* the pieces of f"Tool '{tool_name}' not found"
TOOL_QUOTE == <<"T","o","o","l"," ","'">>
QUOTE_NOT_FOUND == <<"'"," ","n","o","t"," ","f","o","u","n","d">>

\* lines 185-202: the details get_tool_schema returns for an operation
ToolDetails(tool_name, o) ==
    [name        |-> tool_name,
     description |-> Or(o.description, o.method \o <<" ">> \o o.path_template),
     method      |-> o.method,
     path        |-> o.path_template,
     tags        |-> o.tag_path,
     parameters  |-> [ j \in 1..Len(o.parameters) |->
                         LET p == o.parameters[j]
                         IN DropNull([name        |-> GetOr(p, "name", None),
                                      in          |-> GetOr(p, "in", None),
                                      required    |-> p.required,
                                      type        |-> GetOr(p.schema, "type", "string"),
                                      description |-> p.description],
                                     p, {"name", "in"}) ],
     has_request_body |-> o.request_body_schema # None]

\* the operation is looked up under its own name, not under the tool name
get_tool_schema_ByOperationName(self, tool_name) ==
    LET stored == { self._operations_by_name[i].value.name :
                        i \in 1..Len(self._operations_by_name) }
    IN IF tool_name \notin stored
       THEN [error |-> TOOL_QUOTE \o tool_name \o QUOTE_NOT_FOUND]
       ELSE LET o == (CHOOSE i \in 1..Len(self._operations_by_name) :
                          self._operations_by_name[i].value.name = tool_name)
            IN ToolDetails(tool_name, self._operations_by_name[o].value)

\* lines 168-202
get_tool_schema(self, tool_name) ==
    IF tool_name \notin Keys(self._operations_by_name)
    THEN [error |-> TOOL_QUOTE \o tool_name \o QUOTE_NOT_FOUND]
    ELSE ToolDetails(tool_name, Lookup(self._operations_by_name, tool_name))

\* toolset.py:240: the model built for the operation; _clean_name(None) raises
\* TypeError for a descriptor without a name
BuildInputModel(o) ==
    IF \E j \in 1..Len(o.parameters) : "name" \notin DOMAIN o.parameters[j]
    THEN Raise("TypeError", [text |-> "expected string or bytes-like object"])
    ELSE Return(_build_input_model_from_operation(o))

\* lines 235-360: the tool function made for the operation, which it keeps for
\* its invocations, or what building its input model raised
_create_tool_function(self, o) ==
    LET InputModel == BuildInputModel(o)
    IN IF InputModel.kind = "raise" THEN InputModel
       ELSE Return([name |-> _clean_name(o.name), op |-> o, InputModel |-> InputModel.value])

\* lines 218-227: the loop over the requested names; a name the index does not
\* have is skipped
RECURSIVE CreateLoop(_, _, _, _)
CreateLoop(self, tool_names, created, k) ==
    IF k > Len(tool_names) THEN Return([tag |-> "FunctionToolset", tools |-> created])
    ELSE IF tool_names[k] \notin Keys(self._operations_by_name)
    THEN CreateLoop(self, tool_names, created, k + 1)
    ELSE LET tool_func == _create_tool_function(self, Lookup(self._operations_by_name, tool_names[k]))
         IN IF tool_func.kind = "raise" THEN tool_func
            ELSE CreateLoop(self, tool_names, Append(created, tool_func.value), k + 1)

\* lines 204-233
create_toolset(self, tool_names) == CreateLoop(self, tool_names, << >>, 1)

\* what a caller does to a dict it was given
clear(d) == << >>
changed_key == <<"x">>
setitem(d) == SetItem(d, changed_key, <<"y">>)

(***************************************************************************)
(* Specification documents the toolset is loaded from.                     *)
(***************************************************************************)
\* how many path entries a document has at most
MaxPaths == 2

\* how many AvathonToolset objects a process constructs at most
MaxToolsets == 2

\* a JSON object whose order matters, by its items
Object(items) == [items |-> items]

\* the shared parameter table of the documents
SharedParameters ==
    (<<"I","d">> :> [name |-> <<"i","d">>, in |-> "path", required |-> TRUE,
             schema |-> [type |-> "string"], description |-> <<"A","s","s","e","t"," ","i","d">>])
    @@ (<<"A","s","s","e","t","I","d">> :> ("$ref" :> <<"#","/","c","o","m","p","o","n","e","n","t","s","/","p","a","r","a","m","e","t","e","r","s","/","I","d">>))

IdReference == "$ref" :> <<"#","/","c","o","m","p","o","n","e","n","t","s","/","p","a","r","a","m","e","t","e","r","s","/","I","d">>

\* operation objects
ListAssets ==
    [operationId |-> <<"l","i","s","t","A","s","s","e","t","s">>, tags |-> << <<"A","s","s","e","t","s">> >>,
     description |-> <<" ","L","i","s","t"," ","a","s","s","e","t","s"," ">>, responses |-> "200",
     parameters |-> << [name |-> <<"p","a","g","e">>, in |-> "query", schema |-> [type |-> "integer"]] >>]

GetAsset ==
    [operationId |-> <<"1","a","s","s","e","t">>, tags |-> << <<"A","s","s","e","t","s">>, <<"D","e","t","a","i","l">> >>,
     summary |-> <<"G","e","t"," ","a","s","s","e","t">>, responses |-> "200",
     parameters |-> << IdReference >>]

PutAsset ==
    [operationId |-> <<"p","a","r","a","m","_","1","a","s","s","e","t">>, tags |-> << <<"a","s","s","e","t","s">> >>, responses |-> "200",
     parameters |-> << IdReference >>,
     requestBody |-> [content |-> ("application/json" :> [schema |-> [type |-> "object"]])]]

Unnamed == [responses |-> "200"]

\* a reference to an entry of the table that is itself a reference
AliasReference == "$ref" :> <<"#","/","c","o","m","p","o","n","e","n","t","s","/","p","a","r","a","m","e","t","e","r","s","/","A","s","s","e","t","I","d">>

\* an inline parameter before a referenced one, and a body that is not JSON
MoveAsset ==
    [operationId |-> <<"m","o","v","e","A","s","s","e","t">>, responses |-> "200",
     parameters |-> << [name |-> <<"t","o">>, in |-> "query", required |-> TRUE,
                        schema |-> [type |-> "string"], description |-> <<"T","a","r","g","e","t">>],
                       IdReference >>,
     requestBody |-> [content |-> ("text/plain" :> [schema |-> [type |-> "string"]])]]

\* a parameter and a request body that are both given by reference
UnlinkAsset ==
    [operationId |-> <<"u","n","l","i","n","k","A","s","s","e","t">>, responses |-> "200",
     parameters |-> << AliasReference >>,
     requestBody |-> ("$ref" :> <<"#","/","c","o","m","p","o","n","e","n","t","s","/","r","e","q","u","e","s","t","B","o","d","i","e","s","/","U","n","l","i","n","k">>)]

\* no parameter list, and JSON content without a schema
GetPlant ==
    [operationId |-> <<"g","e","t","P","l","a","n","t">>, responses |-> "200",
     requestBody |-> [content |-> ("application/json" :> [example |-> "{}"])]]

\* an inline path parameter without a required flag
PatchPlant ==
    [operationId |-> <<"p","a","t","c","h","P","l","a","n","t">>, responses |-> "200",
     parameters |-> << [name |-> <<"p","l","a","n","t","I","d">>, in |-> "path"] >>]

\* the items of paths: the path and its object, null where the document is broken
PathEntries ==
    { Item(<<"/","a","s","s","e","t","s">>, Object(<< Item(<<"g","e","t">>, ListAssets),
                                Item(<<"p","a","r","a","m","e","t","e","r","s">>, ListVal(<< >>)),
                                Item(<<"P","O","S","T">>, Unnamed) >>)),
      Item(<<"/","a","s","s","e","t","s","/","{","i","d","}">>, Object(<< Item(<<"G","e","t">>, GetAsset),
                                     Item(<<"o","p","t","i","o","n","s">>, Unnamed) >>)),
      Item(<<"/","i","t","e","m","s","/","{","i","d","}">>, Object(<< Item(<<"p","u","t">>, PutAsset) >>)),
      Item(<<"/","m","o","v","e","s","/","{","i","d","}">>, Object(<< Item(<<"p","o","s","t">>, MoveAsset), Item(<<"d","e","l","e","t","e">>, UnlinkAsset) >>)),
      Item(<<"/","p","l","a","n","t","s","/","{","p","l","a","n","t","I","d","}">>,
           Object(<< Item(<<"p","a","r","a","m","e","t","e","r","s">>,
                          ListVal(<< [name |-> <<"p","l","a","n","t","I","d">>, in |-> "path", required |-> TRUE] >>)),
                     Item(<<"g","e","t">>, GetPlant), Item(<<"p","a","t","c","h">>, PatchPlant) >>)),
      Item(<<"/","s","i","t","e","s">>, Object(<< Item(<<"d","e","l","e","t","e">>, Unnamed), Item(<<"x","-","i","n","t","e","r","n","a","l">>, None) >>)),
      Item(<<"/","e","m","p","t","y">>, Object(<< >>)),
      Item(<<"/","b","r","o","k","e","n">>, Object(<< Item(<<"p","a","t","c","h">>, Unnamed), Item(<<"g","e","t">>, None) >>)),
      Item(<<"/","n","u","l","l">>, None) }

\* the entries whose structure is that of an OpenAPI document
ValidEntries ==
    { e \in PathEntries :
          /\ e.value # None
          /\ \A i \in 1..Len(e.value.items) :
                 upper(e.value.items[i].key) \in HTTP_METHODS => e.value.items[i].value # None }

\* the orders in which up to n of the entries can stand in a document
Arrangements(n) ==
    UNION { { f \in [1..k -> PathEntries] : \A i, j \in 1..k : i # j => f[i] # f[j] } :
              k \in 0..n }

Documents ==
    { [openapi |-> "3.0.0", paths |-> ps, components |-> [parameters |-> SharedParameters]] :
          ps \in Arrangements(MaxPaths) }
    \cup { [openapi |-> "3.0.0"] }

StructurallyValid(oas) ==
    \A i \in 1..Len(GetOr(oas, "paths", << >>)) : oas.paths[i] \in ValidEntries

\* what _load_spec_file ends with: the parsed document, or an exception when
\* neither S3 nor the local file gives one
SpecFiles ==
    { Return(d) : d \in Documents }
    \cup { Raise("FileNotFoundError", [text |-> "No such file or directory"]),
           Raise("JSONDecodeError", [text |-> "Expecting value"]) }

(***************************************************************************)
(* A process that imports the toolset module and uses toolsets.            *)
(***************************************************************************)
\* arguments of get_tools and get_tool_schema
SearchChoices ==
    { None, ListVal(<< >>), ListVal(<< <<"A","S","S","E","T">> >>), ListVal(<< <<"A","s","s","e","t","s"," ","L","i","s","t">> >>),
      ListVal(<< <<"z","z","z">>, <<"g","e","t"," ">> >>) }
CategoryChoices == { None, ListVal(<< <<"A","S","S","E","T","S">> >>), ListVal(<< <<"x">>, <<"d","e","t","a","i","l">> >>) }
MethodChoices == { None, ListVal(<< <<"g","e","t">> >>), ListVal(<< <<"P","U","T">>, <<"D","e","l","e","t","e">> >>) }
LimitChoices == { 0, 1, 100 }

ToolNames ==
    { <<"l","i","s","t","A","s","s","e","t","s">>, <<"1","a","s","s","e","t">>, <<"p","a","r","a","m","_","1","a","s","s","e","t">>, <<"P","O","S","T","_","/","a","s","s","e","t","s">>, <<"p","o","s","t","_","/","a","s","s","e","t","s">>,
      <<"d","e","l","e","t","e","_","/","s","i","t","e","s">>, <<"n","o","p","e">>,
      <<"m","o","v","e","A","s","s","e","t">>, <<"u","n","l","i","n","k","A","s","s","e","t">> }

\* the lists of names create_toolset is called with
ToolLists ==
    { << >> } \cup { << n >> : n \in ToolNames }
              \cup { << <<"n","o","p","e">>, <<"l","i","s","t","A","s","s","e","t","s">> >> }

\* how many tools a created toolset has at most
MaxCreated == 2

\* the answers of the transport to a tool of a created toolset
ToolResponses ==
    { r \in Responses : \/ r.status_code = 200 /\ r.is_json /\ r.json = DictVal(<< >>)
                        \/ r.status_code = 404 /\ ~r.is_json }

\* the validated inputs that leave out every field that can be left out
MinimalDumps(fields) ==
    { d \in ModelDumps(fields) :
        \A k \in DOMAIN d : fields[k].required \/ fields[k].default # None }

\* the validated inputs of the tools of the toolset the last call created
ToolInputs ==
    IF pc = "called" /\ call.name = "create_toolset" /\ returned.kind = "return"
    THEN UNION { MinimalDumps(returned.value.tools[i].InputModel) :
                     i \in 1..Len(returned.value.tools) }
    ELSE { }

\* the process has its client (set_avathon_client(AvathonClient(...))) when it
\* imports the toolset module
RegistryInit ==
    /\ pc = "module"
    /\ spec_file \in SpecFiles
    /\ load_count = 0
    /\ oas_ops = None
    /\ toolset = None
    /\ AVATHON_EXECUTION_REGISTRY = << >>
    /\ call = None
    /\ returned = None
    /\ returned_is = None
    /\ op = None
    /\ kwargs = << >>
    /\ api_key_set = TRUE
    /\ avathon_client = Client(1)
    /\ http = << "open" >>
    /\ tasks = << >>
    /\ requests = << >>
    /\ response = None
    /\ outcome = None
    /\ NoPathCall
    /\ path = << >>
    /\ missing = << >>
    /\ is_valid = FALSE
    /\ remaining = << >>

\* toolset.py is imported: lines 364-377, _initialize_registry constructs a
\* toolset and copies its registry into the global
Import ==
    /\ pc = "module"
    /\ LET made == _load_operations(spec_file)
       IN /\ toolset' = made.self
          /\ oas_ops' = made.oas_ops
          /\ AVATHON_EXECUTION_REGISTRY' = get_available_tools(made.self).items
    /\ load_count' = load_count + 1
    /\ pc' = "imported"
    /\ UNCHANGED << spec_file, call, returned, returned_is >>
    /\ UNCHANGED << pathVars, invokeVars >>
    /\ UNCHANGED clientVars

\* AvathonToolset(): lines 35-39
Construct ==
    /\ pc = "imported"
    /\ load_count < MaxToolsets
    /\ LET made == _load_operations(spec_file)
       IN /\ toolset' = made.self
          /\ oas_ops' = made.oas_ops
    /\ load_count' = load_count + 1
    /\ UNCHANGED << pc, spec_file, AVATHON_EXECUTION_REGISTRY, call, returned, returned_is >>
    /\ UNCHANGED << pathVars, invokeVars >>
    /\ UNCHANGED clientVars

GetAvailableTools ==
    /\ pc = "imported"
    /\ call' = [name |-> "get_available_tools"]
    /\ LET got == get_available_tools(toolset)
       IN /\ returned' = got.items
          /\ returned_is' = got.is
    /\ pc' = "called"
    /\ UNCHANGED << spec_file, load_count, oas_ops, toolset, AVATHON_EXECUTION_REGISTRY >>
    /\ UNCHANGED << pathVars, invokeVars >>
    /\ UNCHANGED clientVars

GetTools(search_terms, categories, methods, limit) ==
    /\ pc = "imported"
    /\ call' = [name |-> "get_tools", search_terms |-> search_terms,
                categories |-> categories, methods |-> methods, limit |-> limit]
    /\ returned' = get_tools(toolset, search_terms, categories, methods, limit)
    /\ returned_is' = "new"
    /\ pc' = "called"
    /\ UNCHANGED << spec_file, load_count, oas_ops, toolset, AVATHON_EXECUTION_REGISTRY >>
    /\ UNCHANGED << pathVars, invokeVars >>
    /\ UNCHANGED clientVars

GetToolSchema(tool_name) ==
    /\ pc = "imported"
    /\ call' = [name |-> "get_tool_schema", tool_name |-> tool_name]
    /\ returned' = get_tool_schema(toolset, tool_name)
    /\ returned_is' = "new"
    /\ pc' = "called"
    /\ UNCHANGED << spec_file, load_count, oas_ops, toolset, AVATHON_EXECUTION_REGISTRY >>
    /\ UNCHANGED << pathVars, invokeVars >>
    /\ UNCHANGED clientVars

GetRegistry ==
    /\ pc = "imported"
    /\ call' = [name |-> "get_registry"]
    /\ LET got == get_registry(toolset)
       IN /\ returned' = got.items
          /\ returned_is' = got.is
    /\ pc' = "called"
    /\ UNCHANGED << spec_file, load_count, oas_ops, toolset, AVATHON_EXECUTION_REGISTRY >>
    /\ UNCHANGED << pathVars, invokeVars >>
    /\ UNCHANGED clientVars

CreateToolset(tool_names) ==
    /\ pc = "imported"
    /\ call' = [name |-> "create_toolset", tool_names |-> tool_names]
    /\ returned' = create_toolset(toolset, tool_names)
    /\ returned_is' = "new"
    /\ pc' = "called"
    /\ UNCHANGED << spec_file, load_count, oas_ops, toolset, AVATHON_EXECUTION_REGISTRY >>
    /\ UNCHANGED << pathVars, invokeVars >>
    /\ UNCHANGED clientVars

\* the caller changes the dict that get_available_tools or get_registry gave
\* it; the registry changes with it when it is the same dict
ChangeReturned(change) ==
    /\ pc = "called"
    /\ call.name \in {"get_available_tools", "get_registry"}
    /\ LET d == IF change = "clear" THEN clear(returned) ELSE setitem(returned)
       IN /\ returned' = d
          /\ toolset' = IF returned_is = "_registry"
                        THEN [toolset EXCEPT !._registry = d]
                        ELSE toolset
    /\ pc' = "changed"
    /\ UNCHANGED << spec_file, load_count, oas_ops, AVATHON_EXECUTION_REGISTRY, call, returned_is >>
    /\ UNCHANGED << pathVars, invokeVars >>
    /\ UNCHANGED clientVars

\* a tool function of the created toolset is about to be called with a
\* validated input
CallTool(i, kw) ==
    /\ pc = "called"
    /\ call.name = "create_toolset"
    /\ returned.kind = "return"
    /\ i \in 1..Len(returned.value.tools)
    /\ kw \in MinimalDumps(returned.value.tools[i].InputModel)
    /\ op' = returned.value.tools[i].op
    /\ kwargs' = kw
    /\ pc' = "ready"
    /\ UNCHANGED << pathVars, api_key_set, avathon_client, requests, response, outcome >>
    /\ UNCHANGED registryVars
    /\ UNCHANGED clientVars

\* the invocation is over and the caller goes on
InvocationOver ==
    /\ pc = "done"
    /\ pc' = "imported"
    /\ call' = None
    /\ returned' = None
    /\ returned_is' = None
    /\ op' = None
    /\ kwargs' = << >>
    /\ requests' = << >>
    /\ response' = None
    /\ outcome' = None
    /\ path_template' = << >>
    /\ values' = << >>
    /\ snake_case_keys' = FALSE
    /\ parameters' = << >>
    /\ path' = << >>
    /\ missing' = << >>
    /\ is_valid' = FALSE
    /\ remaining' = << >>
    /\ UNCHANGED << spec_file, load_count, oas_ops, toolset, AVATHON_EXECUTION_REGISTRY >>
    /\ UNCHANGED << api_key_set, avathon_client >>
    /\ UNCHANGED clientVars

\* the caller has the returned value and goes on
Continue ==
    /\ pc \in {"called", "changed"}
    /\ pc' = "imported"
    /\ call' = None
    /\ returned' = None
    /\ returned_is' = None
    /\ UNCHANGED << spec_file, load_count, oas_ops, toolset, AVATHON_EXECUTION_REGISTRY >>
    /\ UNCHANGED << pathVars, invokeVars >>
    /\ UNCHANGED clientVars

RegistryNext ==
    \/ Import
    \/ Construct
    \/ GetAvailableTools
    \/ \E st \in SearchChoices, c \in CategoryChoices, m \in MethodChoices, l \in LimitChoices :
           GetTools(st, c, m, l)
    \/ \E n \in ToolNames : GetToolSchema(n)
    \/ GetRegistry
    \/ \E names \in ToolLists : CreateToolset(names)
    \/ \E change \in {"clear", "setitem"} : ChangeReturned(change)
    \/ \E i \in 1..MaxCreated, kw \in ToolInputs : CallTool(i, kw)
    \/ Invoke
    \/ \E r \in ToolResponses : Respond(r)
    \/ TransportRaises
    \/ InvocationOver
    \/ Continue

RegistrySpec == RegistryInit /\ [][RegistryNext]_vars

(***************************************************************************)
(* The input model of an operation: built, then given a caller's input.    *)
(***************************************************************************)
\* a descriptor as iter_operations makes it
Descriptor(name, where, required, schema) ==
    [name |-> name, in |-> where, required |-> required, schema |-> schema,
     description |-> << >>]

start_date == <<"s","t","a","r","t","_","d","a","t","e">>
end_date == <<"e","n","d","_","d","a","t","e">>

\* the descriptors of the operations the model is built for; the last one is
\* what an unresolved reference leaves
SchemaDescriptors ==
    { Descriptor(start_date, "query",  TRUE,  [type |-> "string"]),
      Descriptor(end_date,   "query",  FALSE, [type |-> "string"]),
      Descriptor(IdName,     "path",   TRUE,  [type |-> "string"]),
      Descriptor(IdName,     "query",  FALSE, [type |-> "integer"]),
      Descriptor(<<"p","a","g","e">>,         "query",  FALSE, [type |-> "integer"]),
      Descriptor(DigitName,  "path",   TRUE,  EmptyObject),
      Descriptor(body_key,   "query",  TRUE,  [type |-> "object"]),
      Descriptor(HeaderName, "header", FALSE, [type |-> "boolean"]),
      [required |-> FALSE, schema |-> EmptyObject, description |-> << >>] }

\* Scenario C of the specification, and a path and a query parameter of one name
ScenarioParameters ==
    << Descriptor(start_date, "query", TRUE,  [type |-> "string"]),
       Descriptor(end_date,   "query", FALSE, [type |-> "string"]) >>

SameNameParameters ==
    << Descriptor(IdName, "path",  TRUE,  [type |-> "string"]),
       Descriptor(IdName, "query", FALSE, [type |-> "integer"]) >>

SchemaOperations ==
    { [name |-> <<"o","p">>, method |-> <<"G","E","T">>, path_template |-> <<"/","p">>,
       tag_path |-> << >>, description |-> << >>,
       parameters |-> ps, request_body_schema |-> b] :
          ps \in UNION { [1..k -> SchemaDescriptors] : k \in 0..MaxParams }
                 \cup { ScenarioParameters, SameNameParameters },
          b \in { None, JsonSchema } }

\* a value of the field's type
SampleValue(field) ==
    IF field.type = "Dict[str, Any]" THEN DictVal(<<"k">> :> StrVal(<<"v">>))
    ELSE IF field.type = "Dict[str, str]" THEN DictVal(HeaderName :> StrVal(<<"e">>))
    ELSE IF field.type = "bool" THEN BoolVal(TRUE)
    ELSE IF field.type = "int" THEN IntVal(42)
    ELSE StrVal(<<"7">>)

\* what a caller passes for the fields: for each one nothing, None or a value
InputsFor(fields) ==
    UNION { { [ k \in S |-> IF k \in N THEN None ELSE SampleValue(fields[k]) ] :
                N \in SUBSET S } :
            S \in SUBSET (DOMAIN fields) }

\* InputModel(**input) and model_dump(exclude_none=True): a field left out has
\* its default, a required field has no default and does not take None
ValidateInput(fields, input) ==
    LET value(k) == IF k \in DOMAIN input THEN input[k] ELSE fields[k].default
        lacking  == { k \in DOMAIN fields : fields[k].required /\ value(k) = None }
    IN IF lacking # {}
       THEN [result |-> Raise("ValidationError", [fields |-> lacking]), dump |-> << >>]
       ELSE [result |-> Return([tag |-> "InputModel"]),
             dump   |-> [ k \in { x \in DOMAIN fields : value(x) # None } |-> value(k) ]]

SchemaInit ==
    /\ pc = "operation"
    /\ op \in SchemaOperations
    /\ kwargs = << >>
    /\ api_key_set = FALSE
    /\ avathon_client = None
    /\ requests = << >>
    /\ response = None
    /\ outcome = None
    /\ NoPathCall
    /\ path = << >>
    /\ missing = << >>
    /\ is_valid = FALSE
    /\ remaining = << >>
    /\ NoRegistry
    /\ NoTasks

\* _create_tool_function builds the input model of the operation
Build ==
    /\ pc = "operation"
    /\ call' = [name |-> "_build_input_model_from_operation"]
    /\ returned' = BuildInputModel(op)
    /\ returned_is' = "new"
    /\ pc' = "built"
    /\ UNCHANGED << pathVars, invokeVars >>
    /\ UNCHANGED << spec_file, load_count, oas_ops, toolset, AVATHON_EXECUTION_REGISTRY >>
    /\ UNCHANGED clientVars

\* a caller's input is validated against the model and dumped
ValidateAndDump(input) ==
    /\ pc = "built"
    /\ returned.kind = "return"
    /\ input \in InputsFor(returned.value)
    /\ LET v == ValidateInput(returned.value, input)
       IN /\ outcome' = v.result
          /\ kwargs' = v.dump
    /\ call' = [name |-> "InputModel", input |-> input]
    /\ pc' = "validated"
    /\ UNCHANGED << pathVars, op, api_key_set, avathon_client, requests, response >>
    /\ UNCHANGED << spec_file, load_count, oas_ops, toolset, AVATHON_EXECUTION_REGISTRY,
                    returned, returned_is >>
    /\ UNCHANGED clientVars

SchemaNext ==
    \/ Build
    \/ \E input \in InputsFor(IF pc = "built" /\ returned.kind = "return"
                               THEN returned.value ELSE << >>) : ValidateAndDump(input)

SchemaSpec == SchemaInit /\ [][SchemaNext]_vars

(***************************************************************************)
(* Properties of the path handler.                                         *)
(***************************************************************************)
Substituted == pc \in {"substituted", "validated"}

\* the value mapping has a non-null value for every placeholder name
\* the key substitute_parameters looks a name up under
LookupKey(n) == IF snake_case_keys THEN _clean_name(n) ELSE n

Complete == \A n \in NamesIn(path_template) : Get(values, LookupKey(n)) # None

\* how many times x occurs in the list
Count(list, x) == Cardinality({ j \in 1..Len(list) : list[j] = x })

\* C1: with a complete value mapping, substitute_parameters followed by
\* validate_path on the returned path yields (True, []), whatever the values are.
C1_SubstituteThenValidateIsValid ==
    (pc = "validated" /\ Complete) => (is_valid /\ remaining = << >>)

\* C2: with an incomplete mapping, the missing list holds each unmapped
\* placeholder name exactly once and no mapped name.
C2_MissingListsEachUnmappedNameOnce ==
    (Substituted /\ ~Complete) =>
        \A n \in NamesIn(path_template) :
            Count(missing, n) = (IF Get(values, LookupKey(n)) = None THEN 1 ELSE 0)

\* C3: extract_parameters returns one token per placeholder occurrence: no two
\* tokens cover the same text of the template.
C3_OneTokenPerOccurrence ==
    (pc # "start") =>
        \A i, j \in 1..Len(parameters) :
            i < j => parameters[i].position + Len(parameters[i].original_format)
                         <= parameters[j].position

\* the placeholder occurrences of a template: the tokens that do not lie inside
\* the text of an earlier token
RECURSIVE Outermost(_, _, _, _)
Outermost(params, k, end, acc) ==
    IF k > Len(params) THEN acc
    ELSE IF params[k].position >= end
         THEN Outermost(params, k + 1,
                        params[k].position + Len(params[k].original_format),
                        Append(acc, params[k]))
         ELSE Outermost(params, k + 1, end, acc)

\* the template with each occurrence that has a value replaced by the value's
\* string form, and every other character kept
RECURSIVE Splice(_, _, _, _, _, _)
Splice(template, occs, vals, snake, k, cursor) ==
    IF k > Len(occs) THEN SubSeq(template, cursor, Len(template))
    ELSE LET o     == occs[k]
             value == Get(vals, IF snake THEN _clean_name(o.name) ELSE o.name)
         IN SubSeq(template, cursor, o.position)
            \o (IF value # None THEN Str(value) ELSE o.original_format)
            \o Splice(template, occs, vals, snake, k + 1,
                      o.position + Len(o.original_format) + 1)

ExpectedPath(template, vals, snake) ==
    Splice(template, Outermost(extract_parameters(template), 1, 0, << >>), vals, snake, 1, 1)

\* C4: the returned path is the template with exactly the placeholder
\* occurrences that have a value replaced by the string form of that value.
C4_PathIsTemplateWithValuesInPlace ==
    Substituted => path = ExpectedPath(path_template, values, snake_case_keys)

\* Scenario A and Scenario B of the specification
ScenarioHolds ==
    (pc = "validated" /\ path_template = ScenarioTemplate) =>
        IF Complete
        THEN /\ path = <<"/","c","o","m","p","a","n","i","e","s","/","1","2","3","/",
                         "p","r","o","j","e","c","t","s","/","4","5","6","/","i","t","e","m","s">>
             /\ is_valid
        ELSE missing = << project_id >>

(***************************************************************************)
(* Properties of an invocation.                                            *)
(***************************************************************************)
Done == pc = "done"

Failed == Done /\ outcome # None /\ outcome.kind = "raise" /\ outcome.type = "ModelRetry"

\* the member of the error taxonomy a failure message stands for
Classification(o) ==
    CASE o.text = "Missing required path parameters: {', '.join(missing)}. Please provide values for: {missing}"
            -> "MissingPathParameter"
      [] o.text = "Failed to substitute all parameters in {op.name}. Unresolved: {', '.join(remaining)}"
            -> "UnresolvedPathTemplate"
      [] o.text = "Authentication failed (401). Please check your AVATHON_API_KEY."
            -> "AuthenticationFailure"
      [] o.text = "Access denied (403). You may not have permission for this resource in {op.name}."
            -> "AuthorizationFailure"
      [] o.text = "Resource not found (404). Please verify the parameters are correct for {op.name}."
            -> "NotFound"
      [] o.text = "Invalid request (400): {error_msg}. Please check your parameters for {op.name}."
            -> "InvalidRequest"
      [] o.text = "Avathon server error ({status}). The service may be temporarily unavailable."
            -> "RemoteUnavailable"
      [] o.text = "API error ({status}) for {op.name}. Please check your request."
            -> "UnclassifiedTransportError"
      [] o.text = "HTTP error for {op.name}: {str(http_error)}"
            -> "UnclassifiedTransportError"
      [] o.text = "Tool execution failed for {op.name}: {str(e)}. Please check your parameters and try again."
            -> "UnclassifiedTransportError"
      [] OTHER -> "unknown"

Taxonomy == { "MissingPathParameter", "UnresolvedPathTemplate", "AuthenticationFailure",
              "AuthorizationFailure", "NotFound", "InvalidRequest", "RemoteUnavailable",
              "UnclassifiedTransportError" }

\* C5: an invocation that finds a path placeholder without a value ends with the
\* missing-path-parameter failure, whose message lists the missing names, and
\* never calls the transport's request.
C5_MissingPathParameterFailsFast ==
    (missing # << >>) =>
        /\ Failed
        /\ Classification(outcome) = "MissingPathParameter"
        /\ outcome.args.missing = missing
        /\ requests = << >>

C5_Witness == Done /\ missing # << >>

\* C6: the path handed to the transport's request holds no placeholder that
\* extract_parameters recognises; when placeholders remain after a substitution
\* without missing names the invocation ends with the unresolved-template
\* failure and dispatches nothing.
C6_DispatchedPathHasNoPlaceholder ==
    /\ \A i \in 1..Len(requests) : extract_parameters(requests[i].path) = << >>
    /\ (pc # "ready" /\ path # << >> /\ missing = << >> /\ extract_parameters(path) # << >>) =>
            /\ Failed
            /\ Classification(outcome) = "UnresolvedPathTemplate"
            /\ requests = << >>

C6_Witness ==
    /\ Failed
    /\ missing = << >>
    /\ extract_parameters(path) # << >>
    /\ Classification(outcome) = "UnresolvedPathTemplate"

\* C7: an invocation calls the transport's request at most once, only when the
\* substitution reported nothing missing and the substituted path validated,
\* and not again after a failed response or a transport exception.
C7_AtMostOneRequestAfterBothChecks ==
    /\ Len(requests) <= 1
    /\ requests # << >> =>
          LET sub == substitute_parameters(op.path_template, kwargs, FALSE)
          IN /\ sub.missing = << >>
             /\ extract_parameters(sub.path) = << >>
             /\ requests[1].path = sub.path

C7_Witness == Failed /\ Len(requests) = 1

StatusClass(status) ==
    CASE status = 401 -> "AuthenticationFailure"
      [] status = 403 -> "AuthorizationFailure"
      [] status = 404 -> "NotFound"
      [] status = 400 -> "InvalidRequest"
      [] status >= 500 -> "RemoteUnavailable"
      [] OTHER -> "UnclassifiedTransportError"

Is2xx(status) == status >= 200 /\ status <= 299

\* C9: for a non-2xx status the failure classification is a function of the
\* status alone: 401, 403, 404 and 400 have their own class, every status
\* >= 500 is RemoteUnavailable and every other one is unclassified.
C9_ClassificationFollowsStatus ==
    (Done /\ response # None /\ ~Is2xx(response.status_code)) =>
        /\ Failed
        /\ Classification(outcome) = StatusClass(response.status_code)

C9_Witness ==
    /\ Failed
    /\ response # None
    /\ response.status_code = 401
    /\ Classification(outcome) = "AuthenticationFailure"

\* the returned value carries the response's payload
CarriesPayload(v, r) ==
    IF r.is_json
    THEN \/ v = r.json
         \/ v.tag = "dict" /\ data_key \in DOMAIN v.d /\ v.d[data_key] = r.json
    ELSE v.tag = "dict" /\ data_key \in DOMAIN v.d /\ v.d[data_key] = StrVal(r.text)

\* the returned value carries the response's status code
CarriesStatus(v, r) ==
    v.tag = "dict" /\ status_code_key \in DOMAIN v.d
                   /\ v.d[status_code_key] = IntVal(r.status_code)

\* C10: for a 2xx status the invocation returns a value that carries both the
\* payload (the decoded JSON, or the raw text) and the status code.
C10_SuccessCarriesPayloadAndStatus ==
    (Done /\ response # None /\ Is2xx(response.status_code)) =>
        /\ outcome.kind = "return"
        /\ CarriesPayload(outcome.value, response)
        /\ CarriesStatus(outcome.value, response)

\* for a 2xx status the invocation returns the payload; the status code comes
\* with it when the body is not JSON
C10_SuccessCarriesPayload ==
    (Done /\ response # None /\ Is2xx(response.status_code)) =>
        /\ outcome.kind = "return"
        /\ CarriesPayload(outcome.value, response)
        /\ ~response.is_json => CarriesStatus(outcome.value, response)

\* whether the failure message has the operation's name put into it
NamesOperation(o, operation) ==
    "op_name" \in DOMAIN o.args /\ o.args.op_name = operation.name

\* C11: for every non-2xx status the transport returns, the failure the
\* invocation ends with has the invoked Operation's name in its message, the
\* statuses 401 and 5xx included.
C11_StatusFailureNamesOperation ==
    (Done /\ response # None /\ ~Is2xx(response.status_code)) =>
        /\ Failed
        /\ NamesOperation(outcome, op)

\* the failures of the statuses whose message has the operation's name: every
\* non-2xx status but 401 and the 5xx
C11_NamedUnlessAuthOrServerError ==
    (Done /\ response # None /\ ~Is2xx(response.status_code)) =>
        /\ Failed
        /\ NamesOperation(outcome, op)
              <=> ~(response.status_code = 401 \/ response.status_code >= 500)

\* the input field of a descriptor is its own: no body or extra-headers field of
\* the input model has taken its name
OwnField(o, d) ==
    /\ _clean_name(d.name) # extra_headers_key
    /\ _clean_name(d.name) = body_key => o.request_body_schema = None

\* the descriptors of the operation that have the location and a supplied value
SuppliedAt(o, kw, where) ==
    { j \in 1..Len(o.parameters) :
          /\ o.parameters[j].in = where
          /\ OwnField(o, o.parameters[j])
          /\ _clean_name(o.parameters[j].name) \in DOMAIN kw }

\* the supplied values of the descriptors of a location, keyed by declared name
ValuesAt(o, kw, where) ==
    LET names == { o.parameters[j].name : j \in SuppliedAt(o, kw, where) }
    IN [ n \in names |-> kw[_clean_name(n)] ]

\* the caller's extra headers, {} when there are none
ExtraHeaders(kw) == IF extra_headers_key \in DOMAIN kw THEN kw[extra_headers_key].d ELSE << >>

\* the header values as strings with the extra headers merged in, the extra
\* header winning on a key of both
ExpectedHeaders(o, kw) ==
    LET declared == ValuesAt(o, kw, "header")
        extra    == ExtraHeaders(kw)
    IN [ x \in (DOMAIN declared) \cup (DOMAIN extra) |->
            IF x \in DOMAIN extra THEN extra[x] ELSE StrVal(Str(declared[x])) ]

\* what client.request is given for a dict: None when the dict is empty
Sent(d) == IF DOMAIN d = {} THEN None ELSE [tag |-> "dict", d |-> d]

\* C12: in a dispatched request the query parameters are exactly the supplied
\* values of the query-location descriptors under their declared names, and the
\* headers are exactly the supplied header-location values as strings merged
\* with the caller's extra headers, the extra header's value winning on a key of
\* both; path- and cookie-location values are in neither.
C12_QueryAndHeadersFollowLocation ==
    \A i \in 1..Len(requests) :
        /\ requests[i].params = Sent(ValuesAt(op, kwargs, "query"))
        /\ requests[i].headers = Sent(ExpectedHeaders(op, kwargs))

\* no descriptor of the operation is named body or extra_headers
NoReservedName(o) ==
    \A j \in 1..Len(o.parameters) :
        _clean_name(o.parameters[j].name) \notin {body_key, extra_headers_key}

\* the same for the operations none of whose descriptors is named body or
\* extra_headers
C12_FollowLocationUnlessReservedName ==
    \A i \in 1..Len(requests) :
        NoReservedName(op) =>
            /\ requests[i].params = Sent(ValuesAt(op, kwargs, "query"))
            /\ requests[i].headers = Sent(ExpectedHeaders(op, kwargs))

\* a request with a header that both a header-location value and the extra
\* headers give
C12_CollisionDispatched ==
    /\ Len(requests) = 1
    /\ NoReservedName(op)
    /\ DOMAIN ValuesAt(op, kwargs, "header") \cap DOMAIN ExtraHeaders(kwargs) # {}

\* the supplied input restricted to the fields of the path-location descriptors
PathValues(o, kw) ==
    LET keys == { _clean_name(o.parameters[j].name) :
                      j \in { i \in 1..Len(o.parameters) : o.parameters[i].in = "path" } }
    IN [ k \in keys \cap DOMAIN kw |-> kw[k] ]

\* the invocation has run its substitution
SubstitutionRan == pc # "ready" /\ path # << >>

\* C13: a placeholder of the path is filled only from the value of a parameter
\* whose descriptor has location path: the path the invocation works with is the
\* template substituted with the path-location values alone, whatever the other
\* input fields are called.
C13_PathFilledOnlyFromPathParameters ==
    SubstitutionRan =>
        path = substitute_parameters(op.path_template, PathValues(op, kwargs), FALSE).path

(***************************************************************************)
(* Properties of the registry.                                             *)
(***************************************************************************)
\* C14: within one process the specification is loaded and parsed at most once,
\* however many toolsets are constructed after the import of the module.
C14_SpecificationLoadedAtMostOnce == load_count <= 1

\* the load of the toolset constructed last ended with an exception
LoadFailed == pc # "module" /\ oas_ops.kind = "raise"

\* C15: when loading the specification or extracting its operations fails, the
\* toolset is constructed all the same and its operation index and its registry
\* are both empty, never a part of the operations.
C15_FailedLoadLeavesEmptyRegistry ==
    LoadFailed =>
        /\ toolset # None
        /\ toolset._operations_by_name = << >>
        /\ toolset._registry = << >>

\* a document whose first path has operations and whose second one is broken
\* has been loaded
C15_Witness ==
    /\ LoadFailed
    /\ spec_file.kind = "return"
    /\ iter_operations(spec_file.value).ops # << >>

\* a call of get_tool_schema has returned
SchemaReturned == pc = "called" /\ call.name = "get_tool_schema"

\* the names get_available_tools and an unfiltered get_tools return
ListedNames ==
    Keys(get_available_tools(toolset).items) \cup Keys(get_tools(toolset, None, None, None, 100))

\* two dicts have the same value under the key, or both have none
SameAt(a, b, key) ==
    /\ (key \in DOMAIN a) = (key \in DOMAIN b)
    /\ key \in DOMAIN a => a[key] = b[key]

\* the value describes the operation: its method, path, tags, parameters and
\* whether it has a request body
Describes(v, name, o) ==
    /\ "error" \notin DOMAIN v
    /\ v.name = name
    /\ v.method = o.method
    /\ v.path = o.path_template
    /\ v.tags = o.tag_path
    /\ Len(v.parameters) = Len(o.parameters)
    /\ \A j \in 1..Len(o.parameters) :
           /\ SameAt(v.parameters[j], o.parameters[j], "name")
           /\ SameAt(v.parameters[j], o.parameters[j], "in")
           /\ v.parameters[j].required = o.parameters[j].required
    /\ v.has_request_body = (o.request_body_schema # None)

\* C16: for a name that get_available_tools or get_tools returns,
\* get_tool_schema returns the details of the Operation stored under that name
\* and no error key; for a name that is not in the index it returns a value
\* whose only key is error.
C16_SchemaOfListedNameElseNotFound ==
    SchemaReturned =>
        /\ call.tool_name \in ListedNames =>
               Describes(returned, call.tool_name,
                         Lookup(toolset._operations_by_name, call.tool_name))
        /\ call.tool_name \notin Keys(toolset._operations_by_name) =>
               DOMAIN returned = {"error"}

\* the schema of an operation whose identifier starts with a digit has been
\* returned for its registered name
C16_Witness ==
    /\ SchemaReturned
    /\ call.tool_name = <<"p","a","r","a","m","_","1","a","s","s","e","t">>
    /\ "error" \notin DOMAIN returned
    /\ Lookup(toolset._operations_by_name, call.tool_name).name = <<"1","a","s","s","e","t">>

\* a call of get_tools has returned
ToolsReturned == pc = "called" /\ call.name = "get_tools"

\* a filter argument was supplied: it is a list with an element
Supplied(xs) == xs # None /\ xs.l # << >>

\* some element of the list satisfies P
Some(xs, P(_)) == \E i \in 1..Len(xs.l) : P(xs.l[i])

\* the entry satisfies the three filters of the call, a search term being
\* looked for in the name and in the description
SatisfiesFilters(name, description, o, c) ==
    /\ Supplied(c.search_terms) =>
           Some(c.search_terms, LAMBDA term : \/ Contains(lower(name), lower(term))
                                              \/ Contains(lower(description), lower(term)))
    /\ Supplied(c.methods) =>
           Some(c.methods, LAMBDA m : upper(m) = o.method)
    /\ Supplied(c.categories) =>
           Some(c.categories, LAMBDA cat : \E i \in 1..Len(o.tag_path) :
                                               lower(o.tag_path[i]) = lower(cat))

NoFilter(c) == ~Supplied(c.search_terms) /\ ~Supplied(c.methods) /\ ~Supplied(c.categories)

\* the first n items of a dict
FirstItems(d, n) == SubSeq(d, 1, IF Len(d) < n THEN Len(d) ELSE n)

\* C17: every entry get_tools returns satisfies all the supplied filters at once
\* (a search term is a case-insensitive substring of its name or of its
\* description, its method is a requested one, one of its tags is a requested
\* category ignoring case), there are at most limit entries, and without
\* filters nothing is left out.
C17_ReturnedEntriesSatisfyAllFilters ==
    ToolsReturned =>
        /\ \A i \in 1..Len(returned) :
               SatisfiesFilters(returned[i].key, returned[i].value,
                                Lookup(toolset._operations_by_name, returned[i].key), call)
        /\ Len(returned) <= call.limit
        /\ NoFilter(call) => returned = FirstItems(toolset._registry, call.limit)

\* the same with a search term looked for in the name, a space and the
\* description put together
SatisfiesFiltersJoined(name, description, o, c) ==
    /\ Supplied(c.search_terms) =>
           Some(c.search_terms,
                LAMBDA term : Contains(lower(name \o <<" ">> \o description), lower(term)))
    /\ Supplied(c.methods) =>
           Some(c.methods, LAMBDA m : upper(m) = o.method)
    /\ Supplied(c.categories) =>
           Some(c.categories, LAMBDA cat : \E i \in 1..Len(o.tag_path) :
                                               lower(o.tag_path[i]) = lower(cat))

\* the entries of the dict that satisfy the filters, in order
RECURSIVE Selected(_, _, _, _)
Selected(d, index, c, k) ==
    IF k > Len(d) THEN << >>
    ELSE (IF SatisfiesFiltersJoined(d[k].key, d[k].value, Lookup(index, d[k].key), c)
          THEN << d[k] >> ELSE << >>)
         \o Selected(d, index, c, k + 1)

\* get_tools returns the first limit of the registry's entries that satisfy the
\* filters, a search term being looked for in the joined text
C17_FirstEntriesMatchingJoinedText ==
    ToolsReturned =>
        returned = FirstItems(Selected(toolset._registry, toolset._operations_by_name, call, 1),
                              call.limit)

\* the toolset constructed last was loaded without an exception
Loaded == pc # "module" /\ oas_ops.kind = "return"

\* C18: every extracted Operation is registered under a name that no other
\* extracted Operation is registered under, so the index has as many entries as
\* there are extracted Operations and the lookup of an operation's registered
\* name gives that operation, identifiers that start with a digit and
\* identifiers made from method and path included.
C18_RegisteredNamesAreDistinct ==
    Loaded =>
        LET ops == oas_ops.value
        IN /\ \A i, j \in 1..Len(ops) :
                  i # j => _clean_name(ops[i].name) # _clean_name(ops[j].name)
           /\ Len(toolset._operations_by_name) = Len(ops)
           /\ \A i \in 1..Len(ops) :
                  /\ _clean_name(ops[i].name) \in Keys(toolset._operations_by_name)
                  /\ Lookup(toolset._operations_by_name, _clean_name(ops[i].name)) = ops[i]

\* the method names, in lower case
MethodNames == { <<"g","e","t">>, <<"p","o","s","t">>, <<"p","u","t">>, <<"p","a","t","c","h">>, <<"d","e","l","e","t","e">> }

\* the (path, key, object) triples of a path's object whose key is a method name
\* ignoring case, in the order of the document
RECURSIVE MethodPairsOf(_, _, _)
MethodPairsOf(path_key, items, k) ==
    IF k > Len(items) THEN << >>
    ELSE (IF lower(items[k].key) \in MethodNames
          THEN << [path |-> path_key, key |-> items[k].key, object |-> items[k].value] >>
          ELSE << >>)
         \o MethodPairsOf(path_key, items, k + 1)

RECURSIVE MethodPairs(_, _)
MethodPairs(paths, k) ==
    IF k > Len(paths) THEN << >>
    ELSE (IF paths[k].value = None THEN << >>
          ELSE MethodPairsOf(paths[k].key, paths[k].value.items, 1))
         \o MethodPairs(paths, k + 1)

PairsOf(oas) == MethodPairs(GetOr(oas, "paths", << >>), 1)

\* C19: iter_operations yields one Operation for every (path, method key) pair
\* of the document whose key is GET, POST, PUT, PATCH or DELETE ignoring case,
\* with the method in upper case and the path as the template, and nothing for
\* any other key under a path.
C19_OneOperationPerMethodKey ==
    Loaded =>
        LET ops   == oas_ops.value
            pairs == PairsOf(spec_file.value)
        IN /\ Len(ops) = Len(pairs)
           /\ \A i \in 1..Len(ops) :
                  /\ ops[i].path_template = pairs[i].path
                  /\ ops[i].method \in HTTP_METHODS
                  /\ lower(ops[i].method) = lower(pairs[i].key)

\* a document with a key in mixed case and a key that is no method has been
\* extracted
C19_Witness ==
    /\ Loaded
    /\ \E i \in 1..Len(oas_ops.value) :
           /\ oas_ops.value[i].method = <<"G","E","T">>
           /\ PairsOf(spec_file.value)[i].key = <<"G","e","t">>
    /\ \E i \in 1..Len(spec_file.value.paths) :
           \E j \in 1..Len(spec_file.value.paths[i].value.items) :
               spec_file.value.paths[i].value.items[j].key = <<"o","p","t","i","o","n","s">>

\* a specification has been loaded from the file
FileLoaded == pc # "module" /\ spec_file.kind = "return"

\* C20: for a structurally valid specification iter_operations completes
\* without raising, and an operation object without a parameter list yields an
\* Operation whose parameter list is empty.
C20_ValidSpecificationNeverRaises ==
    (FileLoaded /\ StructurallyValid(spec_file.value)) =>
        /\ oas_ops.kind = "return"
        /\ LET pairs == PairsOf(spec_file.value)
           IN \A i \in 1..Len(pairs) :
                  "parameters" \notin DOMAIN pairs[i].object =>
                      /\ i <= Len(oas_ops.value)
                      /\ oas_ops.value[i].parameters = << >>

\* a valid document with an operation without parameters, beside a key that is
\* no method and holds null, has been extracted
C20_Witness ==
    /\ FileLoaded
    /\ StructurallyValid(spec_file.value)
    /\ \E i \in 1..Len(oas_ops.value) :
           /\ oas_ops.value[i].name = <<"d","e","l","e","t","e","_","/","s","i","t","e","s">>
           /\ oas_ops.value[i].parameters = << >>

(***************************************************************************)
(* Properties of the extracted operations.                                 *)
(***************************************************************************)
\* the parameter list an operation object declares
Declared(o) == GetOr(o, "parameters", << >>)

IsReference(entry) == "$ref" \in DOMAIN entry

\* the shared parameter table of a document
SharedTable(oas) == GetOr(GetOr(oas, "components", EmptyObject), "parameters", EmptyObject)

\* the descriptor has the name, location, required flag, schema and description
\* of the parameter object
Carries(d, source) ==
    /\ SameAt(d, source, "name")
    /\ SameAt(d, source, "in")
    /\ d.required = GetOr(source, "required", FALSE)
    /\ d.schema = GetOr(source, "schema", EmptyObject)
    /\ d.description = GetOr(source, "description", << >>)

\* the descriptors of an Operation stand, in the order of declaration, for the
\* entries of the operation object's list: a reference into the table for the
\* entry it names, an inline parameter for itself
DescriptorsFollowDeclaration(o, operation, table) ==
    /\ Len(operation.parameters) = Len(Declared(o))
    /\ \A j \in 1..Len(Declared(o)) :
           LET entry == Declared(o)[j]
           IN IF IsReference(entry)
              THEN LastSegment(entry["$ref"]) \in DOMAIN table =>
                       Carries(operation.parameters[j], table[LastSegment(entry["$ref"])])
              ELSE Carries(operation.parameters[j], entry)

HasNameAndLocation(d) == "name" \in DOMAIN d /\ "in" \in DOMAIN d

\* C21: every referenced parameter of an operation is extracted with the name,
\* location, required flag, schema and description of the entry of the shared
\* table, every inline parameter with its own, in the order of declaration, and
\* no descriptor of an extracted Operation has a null name or a null location.
C21_ParametersResolvedAndNamed ==
    Loaded =>
        LET pairs == PairsOf(spec_file.value)
        IN \A i \in 1..Len(oas_ops.value) :
               /\ DescriptorsFollowDeclaration(pairs[i].object, oas_ops.value[i],
                                               SharedTable(spec_file.value))
               /\ \A j \in 1..Len(oas_ops.value[i].parameters) :
                      HasNameAndLocation(oas_ops.value[i].parameters[j])

\* the descriptors carry what the entries they stand for declare, in order
C21_DescriptorsFollowDeclaration ==
    Loaded =>
        LET pairs == PairsOf(spec_file.value)
        IN \A i \in 1..Len(oas_ops.value) :
               DescriptorsFollowDeclaration(pairs[i].object, oas_ops.value[i],
                                            SharedTable(spec_file.value))

\* an operation with an inline parameter before a referenced one has been
\* extracted
C21_MixedListExtracted ==
    /\ Loaded
    /\ \E i \in 1..Len(oas_ops.value) :
           LET ps == oas_ops.value[i].parameters
           IN /\ Len(ps) = 2
              /\ ps[1].name = <<"t","o">> /\ ps[1].in = "query" /\ ps[1].required
              /\ ps[2].name = <<"i","d">> /\ ps[2].in = "path"

\* the Operations the toolset constructed last holds
HeldOperations ==
    { toolset._operations_by_name[i].value : i \in 1..Len(toolset._operations_by_name) }

IsPathParameter(d) == "in" \in DOMAIN d /\ d.in = "path"

\* C22: every parameter descriptor of every Operation held by the registry whose
\* location is path is a required one.
C22_PathParametersAreRequired ==
    Loaded =>
        \A o \in HeldOperations :
            \A j \in 1..Len(o.parameters) :
                IsPathParameter(o.parameters[j]) => o.parameters[j].required

\* the path-location descriptors of the operation that have the name
PathDescriptorsNamed(o, name) ==
    { j \in 1..Len(o.parameters) :
          /\ IsPathParameter(o.parameters[j])
          /\ "name" \in DOMAIN o.parameters[j]
          /\ o.parameters[j].name = name }

\* C23: for every Operation held by the registry, each placeholder that
\* extract_parameters finds in its path template has exactly one parameter
\* descriptor of location path with its name.
C23_EveryPlaceholderHasOnePathDescriptor ==
    Loaded =>
        \A o \in HeldOperations :
            LET tokens == extract_parameters(o.path_template)
            IN \A k \in 1..Len(tokens) :
                   Cardinality(PathDescriptorsNamed(o, tokens[k].name)) = 1

\* the operation object has a request body with a content entry for
\* application/json that has a schema
HasJsonSchema(o) ==
    /\ "requestBody" \in DOMAIN o
    /\ "content" \in DOMAIN o.requestBody
    /\ "application/json" \in DOMAIN o.requestBody.content
    /\ "schema" \in DOMAIN o.requestBody.content["application/json"]

\* C24: the request-body schema of an extracted Operation is the schema under
\* the application/json content entry of the operation's request body when
\* there is one, and None otherwise (no request body, other content types only,
\* a request body given by reference); extraction does not raise in any of
\* these cases.
C24_BodySchemaOnlyFromJsonContent ==
    (FileLoaded /\ StructurallyValid(spec_file.value)) =>
        /\ oas_ops.kind = "return"
        /\ LET pairs == PairsOf(spec_file.value)
           IN \A i \in 1..Len(pairs) :
                  /\ i <= Len(oas_ops.value)
                  /\ oas_ops.value[i].request_body_schema =
                         IF HasJsonSchema(pairs[i].object)
                         THEN pairs[i].object.requestBody.content["application/json"].schema
                         ELSE None

\* the schema registered for the operation of that name
BodySchemaOf(name) == Lookup(toolset._operations_by_name, name).request_body_schema

\* a document with a JSON body, a body of another content type and a body
\* given by reference has been extracted
C24_Witness ==
    /\ Loaded
    /\ {<<"p","a","r","a","m","_","1","a","s","s","e","t">>, <<"m","o","v","e","A","s","s","e","t">>, <<"u","n","l","i","n","k","A","s","s","e","t">>} \subseteq Keys(toolset._operations_by_name)
    /\ BodySchemaOf(<<"p","a","r","a","m","_","1","a","s","s","e","t">>) = [type |-> "object"]
    /\ BodySchemaOf(<<"m","o","v","e","A","s","s","e","t">>) = None
    /\ BodySchemaOf(<<"u","n","l","i","n","k","A","s","s","e","t">>) = None

(***************************************************************************)
(* Properties of the input model.                                          *)
(***************************************************************************)
\* the input model of op has been built, or building it has raised
Built == pc \in {"built", "validated"}

\* the names the descriptors of the operation give their fields
FieldNameOf(d) == _clean_name(d.name)

\* the call of Scenario C: only start_date is supplied
OnlyStartDate == start_date :> StrVal(<<"7">>)

\* C25: the input model has one field for each parameter descriptor of the
\* Operation, under _clean_name of the descriptor's name, and the field is
\* required exactly when the descriptor is; the model of an Operation with a
\* required start_date and an optional end_date accepts an input that has only
\* start_date.
C25_OneFieldPerDescriptor ==
    /\ Built =>
          /\ returned.kind = "return"
          /\ \A j \in 1..Len(op.parameters) :
                 /\ "name" \in DOMAIN op.parameters[j]
                 /\ FieldNameOf(op.parameters[j]) \in DOMAIN returned.value
                 /\ returned.value[FieldNameOf(op.parameters[j])].required
                        = op.parameters[j].required
                 /\ \A i \in 1..Len(op.parameters) :
                        (i # j /\ "name" \in DOMAIN op.parameters[i]) =>
                            FieldNameOf(op.parameters[i]) # FieldNameOf(op.parameters[j])
    /\ (pc = "validated" /\ op.parameters = ScenarioParameters /\ call.input = OnlyStartDate) =>
          outcome.kind = "return"

\* the descriptors have names, no two of them the same field name, and none
\* the name of the body or the extra headers field
PlainParameters(o) ==
    /\ \A j \in 1..Len(o.parameters) :
           /\ "name" \in DOMAIN o.parameters[j]
           /\ FieldNameOf(o.parameters[j]) \notin {body_key, extra_headers_key, include_all_key}
    /\ \A i, j \in 1..Len(o.parameters) :
           i # j => FieldNameOf(o.parameters[i]) # FieldNameOf(o.parameters[j])

\* for such an Operation every descriptor has its field with its required flag,
\* and Scenario C is accepted
C25_OneFieldPerPlainDescriptor ==
    /\ (Built /\ PlainParameters(op)) =>
          /\ returned.kind = "return"
          /\ \A j \in 1..Len(op.parameters) :
                 /\ FieldNameOf(op.parameters[j]) \in DOMAIN returned.value
                 /\ returned.value[FieldNameOf(op.parameters[j])].required
                        = op.parameters[j].required
    /\ (pc = "validated" /\ op.parameters = ScenarioParameters /\ call.input = OnlyStartDate) =>
          /\ outcome.kind = "return"
          /\ kwargs = OnlyStartDate

\* Scenario C has been run
C25_ScenarioValidated ==
    pc = "validated" /\ op.parameters = ScenarioParameters /\ call.input = OnlyStartDate

\* the input model of op has been built
ModelBuilt == Built /\ returned.kind = "return"

\* the names of the fields the parameters of the operation have
ParameterFieldNames(o) == { FieldNameOf(o.parameters[j]) : j \in 1..Len(o.parameters) }

Optional(field) == ~field.required

\* C26: the input model has a body field if and only if the Operation declares
\* a request-body schema, the body field is optional, an optional extra-headers
\* field is there for every Operation, and there is no field other than the
\* parameter fields, body and extra_headers.
C26_BodyExtraHeadersAndNothingElse ==
    ModelBuilt =>
        /\ body_key \in DOMAIN returned.value <=> op.request_body_schema # None
        /\ body_key \in DOMAIN returned.value => Optional(returned.value[body_key])
        /\ extra_headers_key \in DOMAIN returned.value
        /\ Optional(returned.value[extra_headers_key])
        /\ DOMAIN returned.value \subseteq
               ParameterFieldNames(op) \cup {body_key, extra_headers_key}

\* a parameter of the operation is named page, per_page or cursor
Paged(o) ==
    \E j \in 1..Len(o.parameters) :
        o.parameters[j].name \in {<<"p","a","g","e">>, <<"p","e","r","_","p","a","g","e">>, <<"c","u","r","s","o","r">>}

\* C26 as amended: the fields of the input model are the parameter fields, body
\* when the Operation declares a request-body schema, extra_headers, and
\* include_all when a parameter is named page, per_page or cursor; body then is
\* an optional dict, extra_headers an optional dict of strings and include_all
\* an optional bool whose default is False.
C26_FieldsAreParametersBodyHeadersAndPaging ==
    ModelBuilt =>
        /\ DOMAIN returned.value =
               ParameterFieldNames(op)
               \cup (IF op.request_body_schema # None THEN {body_key} ELSE {})
               \cup {extra_headers_key}
               \cup (IF Paged(op) THEN {include_all_key} ELSE {})
        /\ op.request_body_schema # None =>
               returned.value[body_key] =
                   [type |-> "Dict[str, Any]", required |-> FALSE, default |-> None]
        /\ returned.value[extra_headers_key] =
               [type |-> "Dict[str, str]", required |-> FALSE, default |-> None]
        /\ Paged(op) =>
               returned.value[include_all_key] =
                   [type |-> "bool", required |-> FALSE, default |-> BoolVal(FALSE)]

\* the model of an operation with a page parameter and a request body has been
\* built
C26_Witness ==
    /\ ModelBuilt
    /\ Paged(op)
    /\ op.request_body_schema # None
    /\ DOMAIN returned.value = {<<"p","a","g","e">>, body_key, extra_headers_key, include_all_key}

(***************************************************************************)
(* Properties of an invocation and its input model.                        *)
(***************************************************************************)
\* the input has a value, which the dump keeps only when it is not None, for
\* every path-location parameter of the operation, under the parameter's field
SuppliesEveryPathParameter(o, kw) ==
    \A j \in 1..Len(o.parameters) :
        o.parameters[j].in = "path" => _clean_name(o.parameters[j].name) \in DOMAIN kw

\* every placeholder of the template is a path-location parameter of the
\* operation
PlaceholdersDeclared(o) ==
    \A n \in NamesIn(o.path_template) :
        \E j \in 1..Len(o.parameters) :
            o.parameters[j].in = "path" /\ o.parameters[j].name = n

\* C28: an invocation whose input has a non-null value for every path-location
\* parameter of the Operation does not end with the missing-path-parameter
\* failure, also when the name of a path parameter starts with a digit and its
\* field has the param_ prefix; stated for the Operations whose placeholders
\* are all declared.
C28_SuppliedPathParametersNeverMissing ==
    (Done /\ PlaceholdersDeclared(op) /\ SuppliesEveryPathParameter(op, kwargs)) =>
        ~(Failed /\ Classification(outcome) = "MissingPathParameter")

\* the same for the Operations none of whose path parameters has a name that
\* starts with a digit
C28_NeverMissingUnlessDigitName ==
    (/\ Done
     /\ PlaceholdersDeclared(op)
     /\ SuppliesEveryPathParameter(op, kwargs)
     /\ \A j \in 1..Len(op.parameters) :
            op.parameters[j].in = "path" =>
                _clean_name(op.parameters[j].name) = op.parameters[j].name) =>
        ~(Failed /\ Classification(outcome) = "MissingPathParameter")

\* a path parameter of such an Operation, without a digit, has been supplied
\* and the request dispatched
C28_PlainNameDispatched ==
    /\ Done
    /\ op.path_template # <<"/","p">>
    /\ PlaceholdersDeclared(op)
    /\ SuppliesEveryPathParameter(op, kwargs)
    /\ Len(requests) = 1

(***************************************************************************)
(* Properties of the global client under concurrent tasks.                 *)
(***************************************************************************)
\* in this step get_avathon_client of task t returns a client
GetReturns(t) ==
    /\ tasks[t].pc = "ready"
    /\ tasks'[t].pc = "done"
    /\ tasks'[t].call = "get_avathon_client"
    /\ tasks'[t].result.kind = "return"

\* in this step close_avathon_client of task t resumes and ends
CloseEnds(t) == tasks[t].pc = "closing" /\ tasks'[t].pc = "done"

\* C29, first part: a client that get_avathon_client returns has an HTTP
\* client whose close has not started
C29_GetNeverReturnsClosingClient ==
    [][\A t \in Tasks : GetReturns(t) => http'[tasks'[t].result.value.id] = "open"]_vars

\* C29, second part: the client that is current when close_avathon_client
\* ends, which that step discards, has been closed
C29_CurrentClientNeverDiscardedOpen ==
    [][\A t \in Tasks : (CloseEnds(t) /\ avathon_client # None)
                            => http'[avathon_client.id] # "open"]_vars

\* C29: under any interleaving of the three client functions run by
\* concurrent tasks, get_avathon_client never returns a client whose close
\* has already started, and a client that is current when
\* close_avathon_client finishes is never discarded without having been closed
C29_ClientNeverReturnedClosingNorDiscardedOpen ==
    [][\A t \in Tasks :
          /\ GetReturns(t) => http'[tasks'[t].result.value.id] = "open"
          /\ (CloseEnds(t) /\ avathon_client # None)
                => http'[avathon_client.id] # "open"]_vars

(***************************************************************************)
(* Properties of the toolset's two dicts after loading.                    *)
(***************************************************************************)
\* the step is a call on the toolset, a change the caller makes to what a call
\* returned, or a step of a tool invocation: it constructs no toolset
NoToolsetConstructed == pc # "module" /\ load_count' = load_count

\* C30: once _load_operations has finished, the operation index and the
\* description registry of the toolset have the same keys, and no call of
\* get_available_tools, get_registry, get_tools, get_tool_schema or
\* create_toolset, no tool invocation and no change a caller makes to the dict
\* that get_available_tools or get_registry returned changes either of them.
C30_IndexAndRegistryStayAsLoaded ==
    [][/\ pc' # "module" =>
            Keys(toolset'._operations_by_name) = Keys(toolset'._registry)
       /\ NoToolsetConstructed =>
            /\ toolset'._operations_by_name = toolset._operations_by_name
            /\ toolset'._registry = toolset._registry]_vars

\* a caller has changed the dict get_available_tools gave it for a registry
\* with entries, and the registry is not what the caller's dict has become
C30_Witness ==
    /\ pc = "changed"
    /\ call.name = "get_available_tools"
    /\ toolset._registry # << >>
    /\ returned # toolset._registry

\* a tool of a created toolset has been invoked and its request answered
C30_ToolInvoked ==
    /\ pc = "done"
    /\ call.name = "create_toolset"
    /\ Len(requests) = 1
    /\ toolset._registry # << >>

====
